---- MODULE Spec2Model ----
(***************************************************************************)
(* pb-cli: the context registry (internal/config), the files it keeps     *)
(* under the configuration directory, and the `pb context` commands that  *)
(* drive it; the command resolver (internal/resolver); the validity of a  *)
(* stored authentication and the `pb collections` command; invocations    *)
(* that save the same context at the same time; `pb auth` and the update  *)
(* of a context from an authentication response; utils.ValidateURL; the   *)
(* page the list action requests; the check the backup commands make of   *)
(* the active context; commands interleaved read by read and write by     *)
(* write; `pb context show`.  Each part has its own specification and     *)
(* leaves the variables of the others alone.                               *)
(*                                                                         *)
(* Strings that the code inspects character by character (context names,  *)
(* path components) are sequences of ASCII codes; strings the code only   *)
(* stores and compares (URLs, collection names, tokens) are TLA+ strings. *)
(* A Go nil slice and an empty slice are both the empty sequence, a nil   *)
(* map and an empty map both the empty set: yaml.v3 writes either as an   *)
(* empty collection and the code only ever tests len().                   *)
(***************************************************************************)
EXTENDS Integers, Sequences, FiniteSets, TLC

VARIABLES
  fs,          \* the files under the configuration home
  last,        \* the registry operation that ran last
  commands,    \* CommandResolver.commands: category -> list of commands
  res,         \* what the resolver call that ran last returned
  now,         \* the wall clock, in minutes
  authSource,  \* which of the two sources of package pocketbase is built
  procs,       \* the invocations that run concurrently on context a
  raw,         \* the bytes of a/context.yaml while they run
  out          \* what the function or command that ran last was given and gave back

vars == <<fs, last, commands, res, now, authSource, procs, raw, out>>

registryVars == <<fs, last>>
resolverVars == <<commands, res>>
clockVars == <<now, authSource>>
raceVars == <<procs, raw>>
ioVars == <<out>>

(***************************************************************************)
(* Bounds of the model.                                                    *)
(***************************************************************************)
MaxNameLen == 2
MaxContexts == 2

(***************************************************************************)
(* Characters and strings.                                                 *)
(***************************************************************************)
Slash == 47
Dot == 46
LowerA == 97

\* The characters names are drawn from: a letter and the path separator.
Alphabet == {LowerA, Slash}

\* len(name) > 50 in ValidateContextName
MaxNameBytes == 50

\* A name one byte longer than the validator allows.
LongName == [i \in 1..(MaxNameBytes + 1) |-> LowerA]

\* ".config", "pb", "." and ".."
ConfigHomeName == <<46, 99, 111, 110, 102, 105, 103>>
PbName == <<112, 98>>
DotName == <<Dot>>
DotDotName == <<Dot, Dot>>

\* Every name a command line passes within the bounds: the strings over the
\* alphabet, the parent directory and the over-long name.
Names == (UNION {[1..n -> Alphabet] : n \in 0..MaxNameLen}) \cup {DotDotName, LongName}

(***************************************************************************)
(* Paths are absolute: the sequence of components below the root.         *)
(***************************************************************************)
ConfigHome == <<ConfigHomeName>>

RECURSIVE SplitFrom(_, _)
\* strings.Split(s, "/") as filepath.Clean sees the joined path
SplitFrom(s, cur) ==
  IF s = <<>> THEN <<cur>>
  ELSE IF Head(s) = Slash THEN <<cur>> \o SplitFrom(Tail(s), <<>>)
  ELSE SplitFrom(Tail(s), Append(cur, Head(s)))

RECURSIVE Walk(_, _)
\* filepath.Clean of base + "/" + components: empty and "." components are
\* dropped, ".." removes the component before it (the root has no parent).
Walk(base, comps) ==
  IF comps = <<>> THEN base
  ELSE LET c == Head(comps)
           next == IF c = <<>> \/ c = DotName THEN base
                   ELSE IF c = DotDotName
                        THEN (IF base = <<>> THEN base ELSE SubSeq(base, 1, Len(base) - 1))
                        ELSE Append(base, c)
       IN Walk(next, Tail(comps))

\* filepath.Join(base, name)
Join(base, name) == Walk(base, SplitFrom(name, <<>>))

IsPrefix(p, q) == Len(p) <= Len(q) /\ SubSeq(q, 1, Len(p)) = p

Prefixes(p) == {SubSeq(p, 1, n) : n \in 0..Len(p)}

\* Manager.configDir: filepath.Join(xdg.ConfigHome, "pb")
ConfigDir == Join(ConfigHome, PbName)

GetContextDir(name) == Join(ConfigDir, name)

\* "backups"
BackupsName == <<98, 97, 99, 107, 117, 112, 115>>

\* Manager.GetBackupDir: ~/.config/pb/<context>/backups
GetBackupDir(name) == Join(GetContextDir(name), BackupsName)

\* The characters ValidateContextName accepts: a-z, A-Z, 0-9, '-' and '_'
ValidNameChar(char) ==
  \/ (char >= 97 /\ char <= 122)
  \/ (char >= 65 /\ char <= 90)
  \/ (char >= 48 /\ char <= 57)
  \/ char = 45
  \/ char = 95

\* Manager.ValidateContextName: TRUE when it returns no error
ValidateContextName(name) ==
  /\ name # <<>>
  /\ \A i \in 1..Len(name) : ValidNameChar(name[i])
  /\ ~(Len(name) > MaxNameBytes)

(***************************************************************************)
(* Values.                                                                 *)
(***************************************************************************)
ErrNone == "ok"
ErrNotFound == "NotFound"
ErrInvalidArgument == "InvalidArgument"
ErrNoActiveContext == "NoActiveContext"
ErrAlreadyExists == "AlreadyExists"
ErrIO == "IOError"
ErrCancelled == "Cancelled"

AuthCollectionUsers == "users"

\* GlobalConfig as LoadGlobalConfig builds it when config.yaml is absent
DefaultGlobalConfig ==
  [ActiveContext |-> <<>>, OutputFormat |-> "json", ColorsEnabled |-> TRUE,
   PaginationSize |-> 30, Debug |-> FALSE]

\* yaml.Marshal(*GlobalConfig): the keys are the struct's yaml tags
MarshalGlobal(g) ==
  [active_context |-> g.ActiveContext, output_format |-> g.OutputFormat,
   colors_enabled |-> g.ColorsEnabled, pagination_size |-> g.PaginationSize,
   debug |-> g.Debug]

\* yaml.Unmarshal(data, &GlobalConfig)
UnmarshalGlobal(d) ==
  [ActiveContext |-> d.active_context, OutputFormat |-> d.output_format,
   ColorsEnabled |-> d.colors_enabled, PaginationSize |-> d.pagination_size,
   Debug |-> d.debug]

\* MarshalContext with the token left out of the document
MarshalContextNoToken(c) ==
  [name |-> c.Name,
   pocketbase |->
     [url |-> c.PocketBase.URL,
      auth_collection |-> c.PocketBase.AuthCollection,
      available_collections |-> c.PocketBase.AvailableCollections,
      auth_token |-> "",
      auth_expires |-> IF c.PocketBase.AuthExpires = <<>>
                       THEN [null |-> TRUE, ts |-> 0]
                       ELSE [null |-> FALSE, ts |-> c.PocketBase.AuthExpires[1]],
      auth_record |-> c.PocketBase.AuthRecord]]

\* yaml.Marshal(*Context): a nil *time.Time is written as null
MarshalContext(c) ==
  [name |-> c.Name,
   pocketbase |->
     [url |-> c.PocketBase.URL,
      auth_collection |-> c.PocketBase.AuthCollection,
      available_collections |-> c.PocketBase.AvailableCollections,
      auth_token |-> c.PocketBase.AuthToken,
      auth_expires |-> IF c.PocketBase.AuthExpires = <<>>
                       THEN [null |-> TRUE, ts |-> 0]
                       ELSE [null |-> FALSE, ts |-> c.PocketBase.AuthExpires[1]],
      auth_record |-> c.PocketBase.AuthRecord]]

\* yaml.Unmarshal(data, &Context)
UnmarshalContext(d) ==
  [Name |-> d.name,
   PocketBase |->
     [URL |-> d.pocketbase.url,
      AuthCollection |-> d.pocketbase.auth_collection,
      AvailableCollections |-> d.pocketbase.available_collections,
      AuthToken |-> d.pocketbase.auth_token,
      AuthExpires |-> IF d.pocketbase.auth_expires.null
                      THEN <<>> ELSE <<d.pocketbase.auth_expires.ts>>,
      AuthRecord |-> d.pocketbase.auth_record]]

\* The zero Context, the value of an error return's nil pointer.
NoContext ==
  [Name |-> <<>>,
   PocketBase |-> [URL |-> "", AuthCollection |-> "", AvailableCollections |-> <<>>,
                   AuthToken |-> "", AuthExpires |-> <<>>, AuthRecord |-> {}]]

(***************************************************************************)
(* The file system: the directories, the context.yaml files (by the       *)
(* directory that holds them) and the config.yaml of the config directory.*)
(***************************************************************************)
NoFile == <<>>

EmptyFS ==
  [dirs |-> Prefixes(ConfigHome), ctx |-> [p \in {} |-> 0], cfg |-> NoFile]

\* os.MkdirAll(p)
MkdirAll(f, p) == [f EXCEPT !.dirs = @ \cup Prefixes(p)]

\* os.RemoveAll(p): p and everything below it; the root itself stays
RemoveAll(f, p) ==
  [dirs |-> {d \in f.dirs : ~IsPrefix(p, d)} \cup {<<>>},
   ctx |-> [d \in {q \in DOMAIN f.ctx : ~IsPrefix(p, q)} |-> f.ctx[d]],
   cfg |-> IF IsPrefix(p, ConfigDir) THEN NoFile ELSE f.cfg]

\* os.WriteFile(GetContextPath(name), data)
WriteContextFile(f, dir, doc) ==
  [f EXCEPT !.ctx = [d \in DOMAIN f.ctx \cup {dir} |-> IF d = dir THEN doc ELSE f.ctx[d]]]

\* NewManager: MkdirAll(configDir)
NewManager(f) == MkdirAll(f, ConfigDir)

(***************************************************************************)
(* Manager: each operation maps a file system to the file system after it,*)
(* an error kind and the value returned.                                   *)
(***************************************************************************)
SaveGlobalConfig(f, g) ==
  IF ConfigDir \in f.dirs
  THEN [fs |-> [f EXCEPT !.cfg = <<MarshalGlobal(g)>>], err |-> ErrNone]
  ELSE [fs |-> f, err |-> ErrIO]

LoadGlobalConfig(f) ==
  IF f.cfg = NoFile
  THEN LET s == SaveGlobalConfig(f, DefaultGlobalConfig)
       IN [fs |-> s.fs, err |-> s.err, val |-> DefaultGlobalConfig]
  ELSE [fs |-> f, err |-> ErrNone, val |-> UnmarshalGlobal(f.cfg[1])]

ContextExists(f, name) == GetContextDir(name) \in DOMAIN f.ctx

LoadContext(f, name) ==
  IF name = <<>> THEN [err |-> ErrInvalidArgument, val |-> NoContext]
  ELSE IF GetContextDir(name) \notin DOMAIN f.ctx
       THEN [err |-> ErrNotFound, val |-> NoContext]
       ELSE [err |-> ErrNone, val |-> UnmarshalContext(f.ctx[GetContextDir(name)])]

SaveContext(f, c) ==
  IF c.Name = <<>> THEN [fs |-> f, err |-> ErrInvalidArgument]
  ELSE [fs |-> WriteContextFile(MkdirAll(f, GetContextDir(c.Name)),
                                GetContextDir(c.Name), MarshalContext(c)),
        err |-> ErrNone]

\* The names ListContexts returns, as a set.
ListContexts(f) ==
  IF ConfigDir \notin f.dirs THEN [err |-> ErrIO, val |-> {}]
  ELSE [err |-> ErrNone,
        val |-> {d[Len(d)] : d \in {q \in DOMAIN f.ctx :
                                      Len(q) = Len(ConfigDir) + 1 /\ IsPrefix(ConfigDir, q)}}]

DeleteContext(f, name) ==
  IF name = <<>> THEN [fs |-> f, err |-> ErrInvalidArgument]
  ELSE IF GetContextDir(name) \notin f.dirs THEN [fs |-> f, err |-> ErrNotFound]
  ELSE [fs |-> RemoveAll(f, GetContextDir(name)), err |-> ErrNone]

\* GetActiveContext without the test for an empty active name
GetActiveContextNoEmptyTest(f) ==
  LET g == LoadGlobalConfig(f)
  IN IF g.err # ErrNone THEN [fs |-> g.fs, err |-> ErrIO, val |-> NoContext]
     ELSE LET l == LoadContext(g.fs, g.val.ActiveContext)
          IN [fs |-> g.fs, err |-> l.err, val |-> l.val]

GetActiveContext(f) ==
  LET g == LoadGlobalConfig(f)
  IN IF g.err # ErrNone THEN [fs |-> g.fs, err |-> ErrIO, val |-> NoContext]
     ELSE IF g.val.ActiveContext = <<>>
          THEN [fs |-> g.fs, err |-> ErrNoActiveContext, val |-> NoContext]
          ELSE LET l == LoadContext(g.fs, g.val.ActiveContext)
               IN [fs |-> g.fs, err |-> l.err, val |-> l.val]

\* SetActiveContext that saves the configuration it loaded, name never assigned
SetActiveContextNoAssign(f, name) ==
  LET l == LoadContext(f, name)
  IN IF l.err # ErrNone THEN [fs |-> f, err |-> l.err]
     ELSE LET g == LoadGlobalConfig(f)
          IN IF g.err # ErrNone THEN [fs |-> g.fs, err |-> ErrIO]
             ELSE SaveGlobalConfig(g.fs, g.val)

\* SetActiveContext that does not verify that the context exists
SetActiveContextUnverified(f, name) ==
  LET g == LoadGlobalConfig(f)
  IN IF g.err # ErrNone THEN [fs |-> g.fs, err |-> ErrIO]
     ELSE SaveGlobalConfig(g.fs, [g.val EXCEPT !.ActiveContext = name])

SetActiveContext(f, name) ==
  LET l == LoadContext(f, name)
  IN IF l.err # ErrNone THEN [fs |-> f, err |-> l.err]
     ELSE LET g == LoadGlobalConfig(f)
          IN IF g.err # ErrNone THEN [fs |-> g.fs, err |-> ErrIO]
             ELSE SaveGlobalConfig(g.fs, [g.val EXCEPT !.ActiveContext = name])

(***************************************************************************)
(* Inputs.                                                                 *)
(***************************************************************************)
\* The flags of `pb context create`: --url ("" is a flag left empty),
\* --auth-collection ("" selects the default) and --collections.
CreateFlags ==
  {[url |-> "", auth |-> "", collections |-> <<>>],
   [url |-> "http://localhost:8090", auth |-> "", collections |-> <<>>],
   [url |-> "http://localhost:8090", auth |-> "", collections |-> <<"">>],
   [url |-> "https://pb.example.com", auth |-> "admins", collections |-> <<"posts">>]}

NewContext(name, url, authCollection, collections) ==
  [Name |-> name,
   PocketBase |-> [URL |-> url, AuthCollection |-> authCollection,
                   AvailableCollections |-> collections,
                   AuthToken |-> "", AuthExpires |-> <<>>, AuthRecord |-> {}]]

\* A context as the auth command leaves it: every field differs from a new one.
AuthenticatedPocketBase ==
  [URL |-> "https://api.example.com", AuthCollection |-> "clients",
   AvailableCollections |-> <<"posts", "users">>,
   AuthToken |-> "tok", AuthExpires |-> <<7>>, AuthRecord |-> {<<"id", "r1">>}]

\* The contexts a caller hands to SaveContext.
SaveInputs ==
  {NewContext(n, "http://localhost:8090", AuthCollectionUsers, <<>>) : n \in Names}
    \cup {[Name |-> n, PocketBase |-> AuthenticatedPocketBase] : n \in Names}

\* The number of context.yaml files stays within the bound.
Room(f, name) ==
  GetContextDir(name) \in DOMAIN f.ctx \/ Cardinality(DOMAIN f.ctx) < MaxContexts

\* A context is stored for the name: a context.yaml lies where the name leads.
Persisted(f, name) == name # <<>> /\ GetContextDir(name) \in DOMAIN f.ctx

\* The operation that ran last, whether a context was stored for its name
\* argument when it started, and the error it returned.
Done(op, stored, err) == [op |-> op, stored |-> stored, err |-> err]

(***************************************************************************)
(* Commands: one process each, from rootCmd.PersistentPreRunE to the end  *)
(* of the command's RunE.                                                  *)
(***************************************************************************)
\* rootCmd.PersistentPreRunE: NewManager, then LoadGlobalConfig (a failure
\* only prints a warning)
PreRun(f) == LoadGlobalConfig(NewManager(f)).fs

\* config.ValidateCollections
ValidateCollections(collections) ==
  collections # <<>> /\ \A i \in 1..Len(collections) : collections[i] # ""

\* createCmd.RunE without the ContextExists test
CreateRunNoExistsTest(f, name, flags) ==
  LET f0 == PreRun(f)
      authCollection == IF flags.auth # "" THEN flags.auth ELSE AuthCollectionUsers
      newContext == NewContext(name, flags.url, authCollection, flags.collections)
  IN IF \/ name = <<>>
        \/ flags.url = ""
        \/ (Len(flags.collections) > 0 /\ ~ValidateCollections(flags.collections))
     THEN [fs |-> f0, err |-> ErrInvalidArgument, ctx |-> newContext]
     ELSE LET s == SaveContext(f0, newContext)
          IN [fs |-> s.fs, err |-> s.err, ctx |-> newContext]

\* createCmd.RunE: the result of `pb context create name --url ...`
CreateRun(f, name, flags) ==
  LET f0 == PreRun(f)
      authCollection == IF flags.auth # "" THEN flags.auth ELSE AuthCollectionUsers
      newContext == NewContext(name, flags.url, authCollection, flags.collections)
  IN IF \/ name = <<>>
        \/ flags.url = ""
        \/ (Len(flags.collections) > 0 /\ ~ValidateCollections(flags.collections))
     THEN [fs |-> f0, err |-> ErrInvalidArgument, ctx |-> newContext]
     ELSE IF ContextExists(f0, name)
          THEN [fs |-> f0, err |-> ErrAlreadyExists, ctx |-> newContext]
          ELSE LET s == SaveContext(f0, newContext)
               IN [fs |-> s.fs, err |-> s.err, ctx |-> newContext]

ContextCreate(name, flags) ==
  /\ Room(fs, name)
  /\ LET r == CreateRun(fs, name, flags)
     IN /\ fs' = r.fs
        /\ last' = Done("create", Persisted(fs, name), r.err)

\* selectCmd.RunE
SelectRun(f, name) ==
  LET f0 == PreRun(f)
      l == LoadContext(f0, name)
  IN IF l.err # ErrNone THEN [fs |-> f0, err |-> ErrNotFound]
     ELSE SetActiveContext(f0, name)

ContextSelect(name) ==
  LET r == SelectRun(fs, name)
  IN /\ fs' = r.fs
     /\ last' = Done("select", Persisted(fs, name), r.err)

\* deleteCmd.RunE; confirmed is --force or a "y" at the prompt
DeleteRun(f, name, confirmed) ==
  LET f0 == PreRun(f)
      l == LoadContext(f0, name)
      g == LoadGlobalConfig(f0)
      isActive == g.val.ActiveContext = name
      d == DeleteContext(g.fs, name)
      cleared == SaveGlobalConfig(d.fs, [g.val EXCEPT !.ActiveContext = <<>>])
  IN IF l.err # ErrNone THEN [fs |-> f0, err |-> ErrNotFound]
     ELSE IF g.err # ErrNone THEN [fs |-> g.fs, err |-> ErrIO]
     ELSE IF ~confirmed THEN [fs |-> g.fs, err |-> ErrCancelled]
     ELSE IF d.err # ErrNone THEN [fs |-> d.fs, err |-> d.err]
     ELSE IF isActive THEN [fs |-> cleared.fs, err |-> ErrNone]
     ELSE [fs |-> d.fs, err |-> ErrNone]

ContextDelete(name, confirmed) ==
  LET r == DeleteRun(fs, name, confirmed)
  IN /\ fs' = r.fs
     /\ last' = Done("delete", Persisted(fs, name), r.err)

(***************************************************************************)
(* Manager methods called on a manager that NewManager has just returned, *)
(* the way manager_test.go drives the registry.                            *)
(***************************************************************************)
SaveContextCall(c) ==
  /\ Room(fs, c.Name)
  /\ LET r == SaveContext(NewManager(fs), c)
     IN /\ fs' = r.fs
        /\ last' = Done("SaveContext", Persisted(fs, c.Name), r.err)

LoadContextCall(name) ==
  LET r == LoadContext(NewManager(fs), name)
  IN /\ fs' = NewManager(fs)
     /\ last' = Done("LoadContext", Persisted(fs, name), r.err)

ListContextsCall ==
  LET r == ListContexts(NewManager(fs))
  IN /\ fs' = NewManager(fs)
     /\ last' = Done("ListContexts", FALSE, r.err)

DeleteContextCall(name) ==
  LET r == DeleteContext(NewManager(fs), name)
  IN /\ fs' = r.fs
     /\ last' = Done("DeleteContext", Persisted(fs, name), r.err)

GetActiveContextCall ==
  LET r == GetActiveContext(NewManager(fs))
  IN /\ fs' = r.fs
     /\ last' = Done("GetActiveContext", FALSE, r.err)

SetActiveContextCall(name) ==
  LET r == SetActiveContext(NewManager(fs), name)
  IN /\ fs' = r.fs
     /\ last' = Done("SetActiveContext", Persisted(fs, name), r.err)

(***************************************************************************)
(* internal/resolver: the command vocabulary and prefix resolution.       *)
(* Commands and partials are sequences of ASCII codes, categories and     *)
(* collection names are strings the code only compares.  The text that    *)
(* strings.Join(xs, ", ") puts into a message is represented by xs, part  *)
(* by part and in the order joined.                                        *)
(***************************************************************************)
\* "context", "collections", "auth", "version", "help"
CmdContext == <<99, 111, 110, 116, 101, 120, 116>>
CmdCollections == <<99, 111, 108, 108, 101, 99, 116, 105, 111, 110, 115>>
CmdAuth == <<97, 117, 116, 104>>
CmdVersion == <<118, 101, 114, 115, 105, 111, 110>>
CmdHelp == <<104, 101, 108, 112>>
\* "create", "list", "select", "show", "delete", "get", "update"
CmdCreate == <<99, 114, 101, 97, 116, 101>>
CmdList == <<108, 105, 115, 116>>
CmdSelect == <<115, 101, 108, 101, 99, 116>>
CmdShow == <<115, 104, 111, 119>>
CmdDelete == <<100, 101, 108, 101, 116, 101>>
CmdGet == <<103, 101, 116>>
CmdUpdate == <<117, 112, 100, 97, 116, 101>>
\* "pb", "add", "remove", "clear"
CmdPb == <<112, 98>>
CmdAdd == <<97, 100, 100>>
CmdRemove == <<114, 101, 109, 111, 118, 101>>
CmdClear == <<99, 108, 101, 97, 114>>

\* initializeCommands
InitialCommands ==
  [category \in {"root", "context", "collections", "auth", "context_collections"} |->
     CASE category = "root" ->
            <<CmdContext, CmdCollections, CmdAuth, CmdVersion, CmdHelp>>
       [] category = "context" ->
            <<CmdCreate, CmdList, CmdSelect, CmdShow, CmdDelete, CmdCollections>>
       [] category = "collections" ->
            <<CmdList, CmdGet, CmdCreate, CmdUpdate, CmdDelete>>
       [] category = "auth" -> <<CmdPb>>
       [] category = "context_collections" ->
            <<CmdAdd, CmdRemove, CmdList, CmdClear>>]

\* strings.ToLower and strings.ToUpper on ASCII
ToLower(s) == [i \in 1..Len(s) |-> IF s[i] \in 65..90 THEN s[i] + 32 ELSE s[i]]
ToUpper(s) == [i \in 1..Len(s) |-> IF s[i] \in 97..122 THEN s[i] - 32 ELSE s[i]]

\* strings.HasPrefix
HasPrefix(s, prefix) == Len(prefix) <= Len(s) /\ SubSeq(s, 1, Len(prefix)) = prefix

\* a < b for Go strings: byte by byte, a proper prefix first
StringLess(a, b) ==
  \E k \in 1..(Len(b)) :
    /\ k <= Len(a) + 1
    /\ SubSeq(a, 1, k - 1) = SubSeq(b, 1, k - 1)
    /\ (k = Len(a) + 1 \/ a[k] < b[k])

RECURSIVE Insert(_, _)
Insert(sorted, x) ==
  IF sorted = <<>> THEN <<x>>
  ELSE IF StringLess(x, Head(sorted)) THEN <<x>> \o sorted
       ELSE <<Head(sorted)>> \o Insert(Tail(sorted), x)

RECURSIVE SortStrings(_)
\* sort.Strings
SortStrings(xs) ==
  IF xs = <<>> THEN <<>> ELSE Insert(SortStrings(Tail(xs)), Head(xs))

\* the commands of the list whose lower-cased form starts with the prefix
Matches(list, prefix) ==
  SelectSeq(list, LAMBDA cmd : HasPrefix(ToLower(cmd), prefix))

ErrUnknownCategory == "UnknownCategory"
ErrEmptyCommand == "EmptyCommand"
ErrUnknownCommand == "UnknownCommand"
ErrAmbiguousCommand == "AmbiguousCommand"
ErrRequired == "Required"
ErrNotConfigured == "NotConfigured"

\* What a resolver call returns: the error kind, the value and the list the
\* error message enumerates.
Result(err, val, listed) == [err |-> err, val |-> val, listed |-> listed]

\* ResolveCommand whose ambiguity message lists the matches as declared
ResolveCommandUnsorted(cmds, category, partial) ==
  IF category \notin DOMAIN cmds THEN Result(ErrUnknownCategory, <<>>, <<>>)
  ELSE IF partial = <<>> THEN Result(ErrEmptyCommand, <<>>, <<>>)
  ELSE LET matches == Matches(cmds[category], ToLower(partial))
       IN CASE Len(matches) = 0 -> Result(ErrUnknownCommand, <<>>, cmds[category])
            [] Len(matches) = 1 -> Result(ErrNone, matches[1], <<>>)
            [] OTHER -> Result(ErrAmbiguousCommand, <<>>, matches)

\* ResolveCommand that compares the partial as typed
ResolveCommandCaseSensitive(cmds, category, partial) ==
  IF category \notin DOMAIN cmds THEN Result(ErrUnknownCategory, <<>>, <<>>)
  ELSE IF partial = <<>> THEN Result(ErrEmptyCommand, <<>>, <<>>)
  ELSE LET matches == Matches(cmds[category], partial)
       IN CASE Len(matches) = 0 -> Result(ErrUnknownCommand, <<>>, cmds[category])
            [] Len(matches) = 1 -> Result(ErrNone, matches[1], <<>>)
            [] OTHER -> Result(ErrAmbiguousCommand, <<>>, SortStrings(matches))

\* ResolveCommand that tests the partial before the category
ResolveCommandEmptyFirst(cmds, category, partial) ==
  IF partial = <<>> THEN Result(ErrEmptyCommand, <<>>, <<>>)
  ELSE IF category \notin DOMAIN cmds THEN Result(ErrUnknownCategory, <<>>, <<>>)
  ELSE LET matches == Matches(cmds[category], ToLower(partial))
       IN CASE Len(matches) = 0 -> Result(ErrUnknownCommand, <<>>, cmds[category])
            [] Len(matches) = 1 -> Result(ErrNone, matches[1], <<>>)
            [] OTHER -> Result(ErrAmbiguousCommand, <<>>, SortStrings(matches))

ResolveCommand(cmds, category, partial) ==
  IF category \notin DOMAIN cmds THEN Result(ErrUnknownCategory, <<>>, <<>>)
  ELSE IF partial = <<>> THEN Result(ErrEmptyCommand, <<>>, <<>>)
  ELSE LET matches == Matches(cmds[category], ToLower(partial))
       IN CASE Len(matches) = 0 -> Result(ErrUnknownCommand, <<>>, cmds[category])
            [] Len(matches) = 1 -> Result(ErrNone, matches[1], <<>>)
            [] OTHER -> Result(ErrAmbiguousCommand, <<>>, SortStrings(matches))

AddCommand(cmds, category, command) ==
  IF category \notin DOMAIN cmds
  THEN [c \in DOMAIN cmds \cup {category} |->
          IF c = category THEN <<command>> ELSE cmds[c]]
  ELSE IF \E i \in 1..Len(cmds[category]) : cmds[category][i] = command
       THEN cmds
       ELSE [cmds EXCEPT ![category] = Append(@, command)]

GetMinimumPrefix(cmds, category, command) ==
  IF category \notin DOMAIN cmds THEN Result(ErrUnknownCategory, <<>>, <<>>)
  ELSE LET list == cmds[category]
           found == {i \in 1..Len(list) : ToLower(list[i]) = ToLower(command)}
           targetCmd == IF found = {} THEN <<>>
                        ELSE list[CHOOSE i \in found : \A j \in found : i <= j]
           unique == {i \in 1..Len(targetCmd) :
                        Len(Matches(list, ToLower(SubSeq(targetCmd, 1, i)))) = 1}
       IN IF targetCmd = <<>> THEN Result(ErrNotFound, <<>>, <<>>)
          ELSE IF unique = {} THEN Result(ErrNone, targetCmd, <<>>)
          ELSE Result(ErrNone,
                      SubSeq(targetCmd, 1, CHOOSE i \in unique : \A j \in unique : i <= j),
                      <<>>)

\* ValidateCollection that accepts every name once collections are configured
ValidateCollectionAnyListed(collection, availableCollections) ==
  IF collection = "" THEN Result(ErrRequired, collection, <<>>)
  ELSE IF Len(availableCollections) > 0
       THEN Result(ErrNone, collection, <<>>)
       ELSE Result(ErrNotConfigured, collection, availableCollections)

ValidateCollection(collection, availableCollections) ==
  IF collection = "" THEN Result(ErrRequired, collection, <<>>)
  ELSE IF \E i \in 1..Len(availableCollections) : availableCollections[i] = collection
       THEN Result(ErrNone, collection, <<>>)
       ELSE Result(ErrNotConfigured, collection, availableCollections)

(***************************************************************************)
(* Resolver inputs and calls.                                              *)
(***************************************************************************)
\* AddCommand calls made on one resolver
MaxAdded == 2

\* "listing", "List", "Sync", "zzz"
CmdListing == <<108, 105, 115, 116, 105, 110, 103>>
CmdListCapital == <<76, 105, 115, 116>>
CmdSync == <<83, 121, 110, 99>>
CmdNone == <<122, 122, 122>>

\* The built-in categories and one the resolver does not know.
Categories == DOMAIN InitialCommands \cup {"plugin"}

\* The commands handed to AddCommand: one that extends a built-in command,
\* one that differs from a built-in command in case only, one that is new.
AddableCommands == {CmdListing, CmdListCapital, CmdSync}
AddCategories == {"context", "plugin"}

Words ==
  UNION {{InitialCommands[c][i] : i \in 1..Len(InitialCommands[c])} : c \in DOMAIN InitialCommands}
    \cup AddableCommands

\* Every prefix of every word, as typed, in lower and in upper case, and a
\* token that starts no command.
Partials ==
  LET typed == UNION {{SubSeq(w, 1, k) : k \in 0..Len(w)} : w \in Words}
  IN typed \cup {ToLower(x) : x \in typed} \cup {ToUpper(x) : x \in typed} \cup {CmdNone}

CollectionInputs == {"", "posts", "Posts", "tags"}
AvailableInputs ==
  {<<>>, <<"posts">>, <<"users", "posts">>, <<"posts", "users">>, <<"users", "tags", "posts">>}

\* The commands a vocabulary holds, over all categories.
Total(cmds) ==
  Cardinality({ci \in (DOMAIN cmds) \X (1..(20 + MaxAdded)) : ci[2] <= Len(cmds[ci[1]])})

\* What the call that ran last returned; args are the arguments of a
\* ValidateCollection call (no other call records them).
Returned(op, args, r) ==
  [op |-> op, args |-> args, err |-> r.err, val |-> r.val, listed |-> r.listed]

AddCommandCall(category, command) ==
  /\ Total(commands) < Total(InitialCommands) + MaxAdded
  /\ commands' = AddCommand(commands, category, command)
  /\ res' = Returned("AddCommand", <<>>, Result(ErrNone, command, <<>>))

ResolveCommandCall(category, partial) ==
  /\ res' = Returned("ResolveCommand", <<>>, ResolveCommand(commands, category, partial))
  /\ UNCHANGED commands

GetMinimumPrefixCall(category, command) ==
  /\ res' = Returned("GetMinimumPrefix", <<>>, GetMinimumPrefix(commands, category, command))
  /\ UNCHANGED commands

ValidateCollectionCall(collection, availableCollections) ==
  /\ res' = Returned("ValidateCollection", <<collection, availableCollections>>,
                     ValidateCollection(collection, availableCollections))
  /\ UNCHANGED commands

(***************************************************************************)
(* Authentication validity (internal/pocketbase), the collections of a    *)
(* context (Context methods, `pb context collections`) and the            *)
(* `pb collections` command.  Time is in minutes.  Package pocketbase has *)
(* two sources for IsAuthValid, internal/pocketbase/auth.go and           *)
(* unnamed/part_008; authSource is the one the build takes.                *)
(***************************************************************************)
\* The clock stops here.
MaxClock == 7

\* AuthExpires.Add(-5 * time.Minute)
AuthBufferMinutes == 5

AuthSources == {"internal/pocketbase/auth.go", "unnamed/part_008"}

\* IsAuthValid of internal/pocketbase/auth.go; t is time.Now()
IsAuthValidBuffered(c, t) ==
  IF c.PocketBase.AuthToken = "" THEN FALSE
  ELSE IF c.PocketBase.AuthExpires = <<>> THEN TRUE
  ELSE t < c.PocketBase.AuthExpires[1] - AuthBufferMinutes

\* IsAuthValid of unnamed/part_008; t is time.Now()
IsAuthValidUnbuffered(c, t) ==
  IF c.PocketBase.AuthToken = "" THEN FALSE
  ELSE IF c.PocketBase.AuthExpires = <<>> THEN TRUE
  ELSE t < c.PocketBase.AuthExpires[1]

IsAuthValid(source, c, t) ==
  IF source = "internal/pocketbase/auth.go"
  THEN IsAuthValidBuffered(c, t)
  ELSE IsAuthValidUnbuffered(c, t)

ErrAuthRequired == "AuthRequired"
ErrAuthExpired == "AuthExpired"
ErrNotInitialized == "NotInitialized"

\* config.ValidateCollectionName; every name of the model is under 50 bytes
ValidateCollectionName(collection) == collection # ""

\* Context.IsCollectionAvailable
IsCollectionAvailable(c, collection) ==
  \E i \in 1..Len(c.PocketBase.AvailableCollections) :
    c.PocketBase.AvailableCollections[i] = collection

\* Context.AddCollection
AddCollection(c, collection) ==
  IF ~ValidateCollectionName(collection) THEN [ctx |-> c, err |-> ErrInvalidArgument]
  ELSE IF IsCollectionAvailable(c, collection) THEN [ctx |-> c, err |-> ErrAlreadyExists]
  ELSE [ctx |-> [c EXCEPT !.PocketBase.AvailableCollections = Append(@, collection)],
        err |-> ErrNone]

\* Context.RemoveCollection: the first entry equal to the name goes
RemoveCollection(c, collection) ==
  LET list == c.PocketBase.AvailableCollections
      at == {i \in 1..Len(list) : list[i] = collection}
  IN IF at = {} THEN [ctx |-> c, err |-> ErrNotFound]
     ELSE LET i == CHOOSE k \in at : \A j \in at : k <= j
          IN [ctx |-> [c EXCEPT !.PocketBase.AvailableCollections =
                          SubSeq(list, 1, i - 1) \o SubSeq(list, i + 1, Len(list))],
              err |-> ErrNone]

RECURSIVE AddEach(_, _)
\* the loop of addCollectionsCmd over its arguments
AddEach(c, args) ==
  IF args = <<>> THEN c
  ELSE AddEach(IF IsCollectionAvailable(c, Head(args)) THEN c
               ELSE AddCollection(c, Head(args)).ctx,
               Tail(args))

\* addCollectionsCmd.RunE: `pb context collections add args...`
AddCollectionsRun(f, args) ==
  LET a == GetActiveContext(PreRun(f))
      ctx == AddEach(a.val, args)
  IN IF a.err # ErrNone THEN [fs |-> a.fs, err |-> ErrNoActiveContext]
     ELSE IF \E i \in 1..Len(args) : ~ValidateCollectionName(args[i])
          THEN [fs |-> a.fs, err |-> ErrInvalidArgument]
     ELSE IF ctx # a.val THEN SaveContext(a.fs, ctx)
     ELSE [fs |-> a.fs, err |-> ErrNone]

\* removeCollectionsCmd.RunE: a name that is not configured is only reported
RemoveCollectionsRun(f, collection) ==
  LET a == GetActiveContext(PreRun(f))
      r == RemoveCollection(a.val, collection)
  IN IF a.err # ErrNone THEN [fs |-> a.fs, err |-> ErrNoActiveContext]
     ELSE IF r.err # ErrNone THEN [fs |-> a.fs, err |-> ErrNone]
     ELSE SaveContext(a.fs, r.ctx)

\* clearCollectionsCmd.RunE
ClearCollectionsRun(f) ==
  LET a == GetActiveContext(PreRun(f))
  IN IF a.err # ErrNone THEN [fs |-> a.fs, err |-> ErrNoActiveContext]
     ELSE IF Len(a.val.PocketBase.AvailableCollections) = 0
          THEN [fs |-> a.fs, err |-> ErrNone]
     ELSE SaveContext(a.fs, [a.val EXCEPT !.PocketBase.AvailableCollections = <<>>])

\* The resolver of package collections: declared, and SetCommandResolver,
\* the only assignment to it, has no caller.
NilResolver == "nil"
cmdResolver == NilResolver

\* routeToAction: the handler a resolved action is dispatched to
RouteToAction(action) ==
  IF action \in {CmdList, CmdGet, CmdCreate, CmdUpdate, CmdDelete}
  THEN [err |-> ErrNone, handler |-> action]
  ELSE [err |-> ErrUnknownCommand, handler |-> <<>>]

\* CollectionsCmd.RunE: `pb collections collection action`, up to the
\* dispatch; t is the clock reading of IsAuthValid
CollectionsRun(f, source, t, collection, action) ==
  LET a == GetActiveContext(PreRun(f))
      Failed(err) == [fs |-> a.fs, err |-> err, handler |-> <<>>]
  IN IF a.err # ErrNone THEN Failed(ErrNoActiveContext)
     ELSE IF a.val.PocketBase.AuthToken = "" THEN Failed(ErrAuthRequired)
     ELSE IF ~IsAuthValid(source, a.val, t) THEN Failed(ErrAuthExpired)
     ELSE IF cmdResolver = NilResolver THEN Failed(ErrNotInitialized)
     ELSE LET v == ValidateCollection(collection, a.val.PocketBase.AvailableCollections)
              r == ResolveCommand(cmdResolver, "collections", action)
              d == RouteToAction(r.val)
          IN IF v.err # ErrNone THEN Failed(v.err)
             ELSE IF r.err # ErrNone THEN Failed(r.err)
             ELSE [fs |-> a.fs, err |-> d.err, handler |-> d.handler]

\* The context these commands run on: "a".
ContextA == <<LowerA>>

\* `pb context create a` with and without --collections
CollectionFlags ==
  {[url |-> "http://localhost:8090", auth |-> "", collections |-> cs] :
     cs \in {<<>>, <<"posts">>, <<"posts", "posts">>}}

\* The expiry of a stored authentication.
SessionExpiry == MaxClock - 1

\* Context a as an authentication leaves it: a token, with and without an
\* expiry.
SessionInputs ==
  {[Name |-> ContextA,
    PocketBase |-> [URL |-> "http://localhost:8090", AuthCollection |-> AuthCollectionUsers,
                    AvailableCollections |-> <<"posts">>, AuthToken |-> "tok",
                    AuthExpires |-> e, AuthRecord |-> {}]] : e \in {<<>>, <<SessionExpiry>>}}

AddArgs == {<<"users">>, <<"users", "users">>, <<"users", "posts">>, <<"">>}
RemoveArgs == {"posts", "users"}
CollectionArgs == {"", "posts", "users"}
ActionArgs == {<<>>, CmdList, ToUpper(CmdList), SubSeq(CmdDelete, 1, 1), CmdNone}

\* Every token and expiry IsAuthValid is applied to.
AuthInputs ==
  {[Name |-> ContextA,
    PocketBase |-> [URL |-> "http://localhost:8090", AuthCollection |-> AuthCollectionUsers,
                    AvailableCollections |-> <<>>, AuthToken |-> tok,
                    AuthExpires |-> e, AuthRecord |-> {}]] :
     tok \in {"", "tok"}, e \in {<<>>} \cup {<<x>> : x \in 0..MaxClock}}

AddCollections(args) ==
  LET r == AddCollectionsRun(fs, args)
  IN /\ fs' = r.fs
     /\ last' = Done("add", FALSE, r.err)

RemoveCollections(collection) ==
  LET r == RemoveCollectionsRun(fs, collection)
  IN /\ fs' = r.fs
     /\ last' = Done("remove", FALSE, r.err)

ClearCollections ==
  LET r == ClearCollectionsRun(fs)
  IN /\ fs' = r.fs
     /\ last' = Done("clear", FALSE, r.err)

CollectionsCommand(collection, action) ==
  LET r == CollectionsRun(fs, authSource, now, collection, action)
  IN /\ fs' = r.fs
     /\ last' = Done("collections", FALSE, r.err)

\* A minute passes.
Tick ==
  /\ now < MaxClock
  /\ now' = now + 1

(***************************************************************************)
(* Invocations that run at the same time on context a.  Each loads        *)
(* a/context.yaml, changes its copy and saves it; os.WriteFile opens the  *)
(* file with O_TRUNC and writes at offset 0 afterwards, two steps that     *)
(* another invocation can come between.  The bytes of the file are its    *)
(* lines, one per scalar and list entry in the order yaml.Marshal writes  *)
(* them.                                                                   *)
(***************************************************************************)
Procs == {1, 2}

\* yaml.Marshal: the lines of a context document
Lines(d) ==
  LET cols == d.pocketbase.available_collections
  IN <<<<"name", d.name>>, <<"url", d.pocketbase.url>>,
       <<"auth_collection", d.pocketbase.auth_collection>>>>
     \o (IF cols = <<>> THEN <<<<"available_collections", "[]">>>>
         ELSE <<<<"available_collections", "">>>> \o [i \in 1..Len(cols) |-> <<"-", cols[i]>>])
     \o <<<<"auth_token", d.pocketbase.auth_token>>,
          <<"auth_expires", d.pocketbase.auth_expires>>,
          <<"auth_record", d.pocketbase.auth_record>>>>

\* The collections the invocations work with, and the lists without
\* repetition over them.
RaceCollections == {"posts", "users", "tags"}
RaceLists ==
  {s \in UNION {[1..n -> RaceCollections] : n \in 0..Cardinality(RaceCollections)} :
     \A i, j \in 1..Len(s) : s[i] = s[j] => i = j}

\* The documents context a can hold here.
RaceDocs ==
  {MarshalContext(NewContext(ContextA, "http://localhost:8090", AuthCollectionUsers, s)) :
     s \in RaceLists}

\* yaml.Unmarshal of the bytes read: an empty file is no document and leaves
\* the zero Context without an error, bytes that are no document fail.
ParseLines(lines) ==
  IF lines = <<>> THEN [err |-> ErrNone, val |-> NoContext]
  ELSE IF \E d \in RaceDocs : Lines(d) = lines
       THEN [err |-> ErrNone,
             val |-> UnmarshalContext(CHOOSE d \in RaceDocs : Lines(d) = lines)]
       ELSE [err |-> ErrIO, val |-> NoContext]

\* write(2) of data at offset 0 of a file that holds old
Overwrite(old, data) == data \o SubSeq(old, Len(data) + 1, Len(old))

NoFileYet == [exists |-> FALSE, lines |-> <<>>]

Idle == [pc |-> "idle", base |-> NoContext, local |-> NoContext, err |-> ErrNone]

\* AddContextCollection, RemoveContextCollection, ClearContextCollections
RaceOps ==
  {[kind |-> "add", collection |-> "users"], [kind |-> "add", collection |-> "tags"],
   [kind |-> "remove", collection |-> "posts"], [kind |-> "clear", collection |-> ""]}

\* The change an invocation makes to the copy it loaded.
Modify(op, c) ==
  CASE op.kind = "add" -> AddCollection(c, op.collection)
    [] op.kind = "remove" -> RemoveCollection(c, op.collection)
    [] OTHER -> [ctx |-> [c EXCEPT !.PocketBase.AvailableCollections = <<>>], err |-> ErrNone]

\* SaveContext run alone, from open to close: context a with one collection
CreateAlone ==
  /\ ~raw.exists
  /\ \A p \in Procs : procs[p].pc = "idle"
  /\ raw' = [exists |-> TRUE,
             lines |-> Lines(MarshalContext(NewContext(ContextA, "http://localhost:8090",
                                                       AuthCollectionUsers, <<"posts">>)))]
  /\ UNCHANGED procs

\* LoadContext, the change to the copy, and the name test of SaveContext
Begin(p, op) ==
  /\ procs[p].pc = "idle"
  /\ LET l == ParseLines(raw.lines)
         m == Modify(op, l.val)
         Fail(err) == [procs EXCEPT ![p] = [Idle EXCEPT !.pc = "failed", !.err = err]]
     IN procs' =
          IF ~raw.exists THEN Fail(ErrNotFound)
          ELSE IF l.err # ErrNone THEN Fail(l.err)
          ELSE IF m.err # ErrNone THEN Fail(m.err)
          ELSE IF m.ctx.Name = <<>> THEN Fail(ErrInvalidArgument)
          ELSE [procs EXCEPT ![p] = [pc |-> "ready", base |-> l.val, local |-> m.ctx,
                                     err |-> ErrNone]]
  /\ UNCHANGED raw

\* os.WriteFile, first half: OpenFile(O_WRONLY|O_CREATE|O_TRUNC)
Open(p) ==
  /\ procs[p].pc = "ready"
  /\ raw' = [exists |-> TRUE, lines |-> <<>>]
  /\ procs' = [procs EXCEPT ![p].pc = "opened"]

\* os.WriteFile, second half: Write and Close
Write(p) ==
  /\ procs[p].pc = "opened"
  /\ raw' = [raw EXCEPT !.lines = Overwrite(@, Lines(MarshalContext(procs[p].local)))]
  /\ procs' = [procs EXCEPT ![p].pc = "saved"]

\* The invocations end once neither is under way; the next two start afresh.
Exit ==
  /\ \A p \in Procs : procs[p].pc \in {"saved", "failed"}
  /\ procs' = [p \in Procs |-> Idle]
  /\ UNCHANGED raw

(***************************************************************************)
(* `pb auth` (cmd/auth) and UpdateAuthContextFromResponse (package         *)
(* pocketbase, again in both sources).  The PocketBase server is outside:  *)
(* whether its health check answers and what it replies to the            *)
(* credentials are inputs.  A pointer is the empty sequence (nil) or a     *)
(* sequence of one element.                                                *)
(***************************************************************************)
\* 7 * 24 * time.Hour, in minutes
SevenDays == 10080

At == 64
Space == 32
Newline == 10

ErrNilResponse == "NilResponse"
ErrMalformedToken == "MalformedToken"
ErrAuthFailed == "AuthFailed"
ErrConnect == "ConnectFailed"

\* The expiry claims the server puts into a token.
ClaimedExpiries == 0..MaxClock

\* A token of three segments whose payload carries exp = e.
JwtExpiring(e) == "eyJhbGciOiJIUzI1NiJ9.exp=" \o ToString(e) \o ".sig"
\* A token of three segments whose payload carries no exp.
JwtNoExp == "eyJhbGciOiJIUzI1NiJ9.sub=r1.sig"
\* A token that is no JWT.
OpaqueToken == "tok"

\* jwt.Parser.ParseUnverified into RegisteredClaims: the exp claim of the
\* payload, no signature check
ParseUnverified(token) ==
  IF \E e \in ClaimedExpiries : token = JwtExpiring(e)
  THEN [err |-> ErrNone, exp |-> <<CHOOSE e \in ClaimedExpiries : token = JwtExpiring(e)>>]
  ELSE IF token = JwtNoExp THEN [err |-> ErrNone, exp |-> <<>>]
  ELSE [err |-> ErrMalformedToken, exp |-> <<>>]

\* UpdateAuthContextFromResponse of internal/pocketbase/auth.go; t is
\* time.Now()
UpdateAuthContextFixed(c, authResp, t) ==
  IF authResp = <<>> THEN [err |-> ErrNilResponse, ctx |-> c]
  ELSE [err |-> ErrNone,
        ctx |-> [c EXCEPT !.PocketBase.AuthToken = authResp[1].Token,
                          !.PocketBase.AuthRecord = authResp[1].Record,
                          !.PocketBase.AuthExpires = <<t + SevenDays>>]]

\* UpdateAuthContextFromResponse of unnamed/part_008; t is time.Now()
UpdateAuthContextParsed(c, authResp, t) ==
  IF authResp = <<>> THEN [err |-> ErrNilResponse, ctx |-> c]
  ELSE LET parsed == ParseUnverified(authResp[1].Token)
           expiresAt == IF parsed.err # ErrNone THEN t + SevenDays
                        ELSE IF parsed.exp # <<>> THEN parsed.exp[1]
                        ELSE t + SevenDays
       IN [err |-> ErrNone,
           ctx |-> [c EXCEPT !.PocketBase.AuthToken = authResp[1].Token,
                             !.PocketBase.AuthRecord = authResp[1].Record,
                             !.PocketBase.AuthExpires = <<expiresAt>>]]

UpdateAuthContextFromResponse(source, c, authResp, t) ==
  IF source = "internal/pocketbase/auth.go"
  THEN UpdateAuthContextFixed(c, authResp, t)
  ELSE UpdateAuthContextParsed(c, authResp, t)

\* config.ValidateAuthCollection
ValidateAuthCollection(collection) == collection # "" /\ Len(collection) <= MaxNameBytes

\* strings.Contains(s, "@") and the like, for one byte
Contains(s, char) == \E i \in 1..Len(s) : s[i] = char

\* strings.TrimSpace
RECURSIVE TrimSpace(_)
TrimSpace(s) ==
  IF s = <<>> THEN s
  ELSE IF s[1] \in {Space, Newline} THEN TrimSpace(Tail(s))
  ELSE IF s[Len(s)] \in {Space, Newline} THEN TrimSpace(SubSeq(s, 1, Len(s) - 1))
  ELSE s

\* promptForEmail: stdin is the line read up to '\n', or nil at end of input
PromptForEmail(stdin) ==
  IF stdin = <<>> THEN [err |-> ErrIO, val |-> <<>>]
  ELSE [err |-> ErrNone, val |-> TrimSpace(stdin[1])]

\* promptForPassword: tty is what term.ReadPassword returns, or nil when
\* stdin is no terminal
PromptForPassword(tty) ==
  IF tty = <<>> THEN [err |-> ErrIO, val |-> ""]
  ELSE [err |-> ErrNone, val |-> tty[1]]

\* Client.Authenticate; reply is the AuthResponse of the server, nil when it
\* rejects the credentials
Authenticate(collection, identity, password, reply) ==
  IF ~ValidateAuthCollection(collection) THEN [err |-> ErrInvalidArgument, val |-> <<>>]
  ELSE IF identity = <<>> THEN [err |-> ErrRequired, val |-> <<>>]
  ELSE IF password = "" THEN [err |-> ErrRequired, val |-> <<>>]
  ELSE IF reply = <<>> THEN [err |-> ErrAuthFailed, val |-> <<>>]
  ELSE [err |-> ErrNone, val |-> reply]

\* pbCmd.RunE that forgets the stored authentication when the server
\* rejects the credentials
AuthRunForgetsOnReject(f, source, t, in) ==
  LET a == GetActiveContext(PreRun(f))
      Failed(err, step) == [fs |-> a.fs, err |-> err, step |-> step]
      ctx == a.val
      pbCollection == IF in.collection # "" THEN in.collection
                      ELSE IF ctx.PocketBase.AuthCollection # ""
                           THEN ctx.PocketBase.AuthCollection
                           ELSE AuthCollectionUsers
      email == IF in.email = <<>> THEN PromptForEmail(in.stdin)
               ELSE [err |-> ErrNone, val |-> in.email]
      password == IF in.password = "" THEN PromptForPassword(in.tty)
                  ELSE [err |-> ErrNone, val |-> in.password]
      authResp == Authenticate(pbCollection, email.val, password.val, in.reply)
      updated == UpdateAuthContextFromResponse(source, ctx, authResp.val, t)
      forgotten == SaveContext(a.fs, [ctx EXCEPT !.PocketBase.AuthToken = "",
                                                 !.PocketBase.AuthExpires = <<>>,
                                                 !.PocketBase.AuthRecord = {}])
      saved == SaveContext(a.fs, [updated.ctx EXCEPT !.PocketBase.AuthCollection = pbCollection])
  IN IF a.err # ErrNone THEN Failed(ErrNoActiveContext, "context")
     ELSE IF ~ValidateAuthCollection(pbCollection) THEN Failed(ErrInvalidArgument, "collection")
     ELSE IF email.err # ErrNone THEN Failed(email.err, "email")
     ELSE IF password.err # ErrNone THEN Failed(password.err, "password")
     ELSE IF email.val = <<>> \/ ~Contains(email.val, At) THEN Failed(ErrInvalidArgument, "email")
     ELSE IF ~in.health THEN Failed(ErrConnect, "health")
     ELSE IF authResp.err # ErrNone
          THEN [fs |-> forgotten.fs, err |-> ErrAuthFailed, step |-> "authenticate"]
     ELSE IF updated.err # ErrNone THEN Failed(updated.err, "update")
     ELSE [fs |-> saved.fs, err |-> saved.err, step |-> "save"]

\* pbCmd.RunE: `pb auth`.  in holds the flags, what the user types when
\* prompted and what the server does; t is time.Now().  step is the step
\* the command ended at.
AuthRun(f, source, t, in) ==
  LET a == GetActiveContext(PreRun(f))
      Failed(err, step) == [fs |-> a.fs, err |-> err, step |-> step]
      ctx == a.val
      pbCollection == IF in.collection # "" THEN in.collection
                      ELSE IF ctx.PocketBase.AuthCollection # ""
                           THEN ctx.PocketBase.AuthCollection
                           ELSE AuthCollectionUsers
      email == IF in.email = <<>> THEN PromptForEmail(in.stdin)
               ELSE [err |-> ErrNone, val |-> in.email]
      password == IF in.password = "" THEN PromptForPassword(in.tty)
                  ELSE [err |-> ErrNone, val |-> in.password]
      authResp == Authenticate(pbCollection, email.val, password.val, in.reply)
      updated == UpdateAuthContextFromResponse(source, ctx, authResp.val, t)
      saved == SaveContext(a.fs, [updated.ctx EXCEPT !.PocketBase.AuthCollection = pbCollection])
  IN IF a.err # ErrNone THEN Failed(ErrNoActiveContext, "context")
     ELSE IF ~ValidateAuthCollection(pbCollection) THEN Failed(ErrInvalidArgument, "collection")
     ELSE IF email.err # ErrNone THEN Failed(email.err, "email")
     ELSE IF password.err # ErrNone THEN Failed(password.err, "password")
     ELSE IF email.val = <<>> \/ ~Contains(email.val, At) THEN Failed(ErrInvalidArgument, "email")
     ELSE IF ~in.health THEN Failed(ErrConnect, "health")
     ELSE IF authResp.err # ErrNone THEN Failed(ErrAuthFailed, "authenticate")
     ELSE IF updated.err # ErrNone THEN Failed(updated.err, "update")
     ELSE [fs |-> saved.fs, err |-> saved.err, step |-> "save"]

\* An auth collection name of 51 bytes.
LongCollection == "collection_name_of_fifty_one_bytes_0123456789abcdef"

UserEmail == <<LowerA, At, LowerA>>

AuthRecords == {{}, {<<"id", "r1">>}}

\* What the server replies to accepted credentials.
AuthResponses ==
  {<<[Token |-> tok, Record |-> rec]>> :
     tok \in {JwtExpiring(e) : e \in {0, 3, MaxClock}} \cup {JwtNoExp, OpaqueToken, ""},
     rec \in AuthRecords}

\* Its replies to `pb auth`.
AuthReplies ==
  {<<[Token |-> tok, Record |-> {<<"id", "r1">>}]>> : tok \in {JwtExpiring(3), JwtNoExp, OpaqueToken}}

\* The responses UpdateAuthContextFromResponse is called with.
ResponseInputs == {<<>>} \cup AuthResponses

\* The runs of `pb auth`: one that passes every step, for each reply, and
\* one for each step that fails.
GoodAuth ==
  [collection |-> "", email |-> UserEmail, password |-> "pw",
   stdin |-> <<>>, tty |-> <<>>, health |-> TRUE,
   reply |-> <<[Token |-> JwtExpiring(3), Record |-> {<<"id", "r1">>}]>>]

AuthRuns ==
  {[GoodAuth EXCEPT !.reply = r] : r \in AuthReplies}
    \cup {[GoodAuth EXCEPT !.collection = c] : c \in {"clients", LongCollection}}
    \cup {[GoodAuth EXCEPT !.email = <<>>, !.stdin = s] :
            s \in {<<>>, <<<<Newline>>>>, <<<<LowerA, Newline>>>>,
                   <<<<Space, LowerA, At, LowerA, Newline>>>>}}
    \cup {[GoodAuth EXCEPT !.password = "", !.tty = t] : t \in {<<>>, <<"">>, <<"pw">>}}
    \cup {[GoodAuth EXCEPT !.health = FALSE], [GoodAuth EXCEPT !.reply = <<>>]}

\* `pb auth`, one process
AuthCommand(in) ==
  LET r == AuthRun(fs, authSource, now, in)
  IN /\ fs' = r.fs
     /\ last' = Done("auth", FALSE, r.err)
     /\ out' = [op |-> "auth", in |-> in, step |-> r.step]

\* A call of UpdateAuthContextFromResponse on a context in memory
UpdateAuthContextFromResponseCall(c, authResp) ==
  LET r == UpdateAuthContextFromResponse(authSource, c, authResp, now)
  IN out' = [op |-> "UpdateAuthContextFromResponse", ctx |-> c, authResp |-> authResp,
             now |-> now, err |-> r.err, val |-> r.ctx]

(***************************************************************************)
(* utils.ValidateURL and net/url.Parse behind it, for URLs written as     *)
(* sequences of ASCII codes over letters, ':', '/' and the space: what     *)
(* url.Parse does with a scheme, an authority and a path.                  *)
(***************************************************************************)
Colon == 58
LowerH == 104

ErrMissingScheme == "MissingProtocolScheme"
ErrColonInSegment == "FirstPathSegmentColon"
ErrInvalidHost == "InvalidHost"

\* The longest URL of the model.
MaxUrlLen == 5

IsLetter(char) == (char >= 97 /\ char <= 122) \/ (char >= 65 /\ char <= 90)
IsDigit(char) == char >= 48 /\ char <= 57

\* strings.Index for one byte; 0 when the byte is absent
IndexByte(s, char) ==
  IF Contains(s, char) THEN CHOOSE i \in 1..Len(s) : s[i] = char /\ \A j \in 1..(i - 1) : s[j] # char
  ELSE 0

\* strings.LastIndex for one byte; 0 when the byte is absent
LastIndexByte(s, char) ==
  IF Contains(s, char)
  THEN CHOOSE i \in 1..Len(s) : s[i] = char /\ \A j \in (i + 1)..Len(s) : s[j] # char
  ELSE 0

\* url.getScheme: the scheme and what follows its colon
RECURSIVE GetSchemeFrom(_, _)
GetSchemeFrom(rawURL, i) ==
  IF i > Len(rawURL) THEN [err |-> ErrNone, scheme |-> <<>>, rest |-> rawURL]
  ELSE IF IsLetter(rawURL[i]) THEN GetSchemeFrom(rawURL, i + 1)
  ELSE IF IsDigit(rawURL[i]) \/ rawURL[i] \in {43, 45, Dot}
       THEN IF i = 1 THEN [err |-> ErrNone, scheme |-> <<>>, rest |-> rawURL]
            ELSE GetSchemeFrom(rawURL, i + 1)
  ELSE IF rawURL[i] = Colon
       THEN IF i = 1 THEN [err |-> ErrMissingScheme, scheme |-> <<>>, rest |-> <<>>]
            ELSE [err |-> ErrNone, scheme |-> SubSeq(rawURL, 1, i - 1),
                  rest |-> SubSeq(rawURL, i + 1, Len(rawURL))]
  ELSE [err |-> ErrNone, scheme |-> <<>>, rest |-> rawURL]

GetScheme(rawURL) == GetSchemeFrom(rawURL, 1)

\* url.validOptionalPort
ValidOptionalPort(port) ==
  port = <<>> \/ (port[1] = Colon /\ \A i \in 2..Len(port) : IsDigit(port[i]))

\* url.parseHost for a host without brackets and escapes
ParseHost(host) ==
  LET i == LastIndexByte(host, Colon)
  IN IF i # 0 /\ ~ValidOptionalPort(SubSeq(host, i, Len(host))) THEN ErrInvalidHost
     ELSE IF Contains(host, Space) THEN ErrInvalidHost
     ELSE ErrNone

\* url.Parse: the error, and the Scheme and Host of the URL it returns
Parse(rawURL) ==
  LET s == GetScheme(rawURL)
      rest == s.rest
      Failed(err) == [err |-> err, Scheme |-> <<>>, Host |-> <<>>]
      slash == IndexByte(rest, Slash)
      segment == IF slash = 0 THEN rest ELSE SubSeq(rest, 1, slash - 1)
      afterSlashes == SubSeq(rest, 3, Len(rest))
      end == IndexByte(afterSlashes, Slash)
      authority == IF end = 0 THEN afterSlashes ELSE SubSeq(afterSlashes, 1, end - 1)
  IN IF s.err # ErrNone THEN Failed(s.err)
     ELSE IF ~HasPrefix(rest, <<Slash>>)
          THEN IF s.scheme # <<>> THEN [err |-> ErrNone, Scheme |-> ToLower(s.scheme), Host |-> <<>>]
               ELSE IF Contains(segment, Colon) THEN Failed(ErrColonInSegment)
               ELSE [err |-> ErrNone, Scheme |-> <<>>, Host |-> <<>>]
     ELSE IF (s.scheme # <<>> \/ ~HasPrefix(rest, <<Slash, Slash, Slash>>))
               /\ HasPrefix(rest, <<Slash, Slash>>)
          THEN IF ParseHost(authority) # ErrNone THEN Failed(ParseHost(authority))
               ELSE [err |-> ErrNone, Scheme |-> ToLower(s.scheme), Host |-> authority]
     ELSE [err |-> ErrNone, Scheme |-> ToLower(s.scheme), Host |-> <<>>]

\* utils.ValidateURL
ValidateURL(urlStr) ==
  IF urlStr = <<>> THEN ErrInvalidArgument
  ELSE IF Parse(urlStr).err # ErrNone THEN ErrInvalidArgument
  ELSE ErrNone

UrlAlphabet == {LowerH, Colon, Slash, Space}

\* Every URL of up to MaxUrlLen bytes.
UrlInputs == UNION {[1..n -> UrlAlphabet] : n \in 0..MaxUrlLen}

\* A call of ValidateURL
ValidateURLCall(urlStr) ==
  out' = [op |-> "ValidateURL", url |-> urlStr, err |-> ValidateURL(urlStr)]

(***************************************************************************)
(* The list action of `pb collections` (cmd/collections/handlers.go): the *)
(* page it asks the server for.  The server answers a request for page p   *)
(* of perPage records with the records after the first (p - 1) * perPage.  *)
(***************************************************************************)
\* validatePaginationOptions: "limit cannot exceed 500 records"
MaxPerPage == 500

\* The default of --limit.
DefaultLimit == 30

\* The records of the collection on the server, numbered from 1.
TotalRecords == 12

ErrPagination == "InvalidPagination"

\* calculatePage; Go's / on two positive ints
calculatePage(offset, limit) ==
  IF offset <= 0 \/ limit <= 0 THEN 1 ELSE (offset \div limit) + 1

\* validatePaginationOptions
validatePaginationOptions(options) ==
  IF options.PerPage < 1 THEN ErrPagination
  ELSE IF options.PerPage > MaxPerPage THEN ErrPagination
  ELSE IF options.Page < 1 THEN ErrPagination
  ELSE ErrNone

\* Client.ListRecords: the query parameters page and perPage of the request
ListRecords(options) ==
  [page |-> IF options.Page > 0 THEN <<options.Page>> ELSE <<>>,
   perPage |-> IF options.PerPage > 0 THEN <<options.PerPage>> ELSE <<>>]

\* handleListAction, up to the request it sends; offset and limit are the
\* flags --offset and --limit
handleListAction(args, offset, limit) ==
  LET options == [Page |-> calculatePage(offset, limit), PerPage |-> limit]
  IN IF Len(args) > 0 THEN [err |-> ErrInvalidArgument, request |-> <<>>]
     ELSE IF validatePaginationOptions(options) # ErrNone
          THEN [err |-> ErrPagination, request |-> <<>>]
     ELSE [err |-> ErrNone, request |-> <<ListRecords(options)>>]

\* The records the server returns for a request: those of the page asked for.
Window(request) ==
  {i \in 1..TotalRecords :
     /\ i > (request.page[1] - 1) * request.perPage[1]
     /\ i <= request.page[1] * request.perPage[1]}

OffsetInputs == (-1..TotalRecords) \cup {DefaultLimit, DefaultLimit + 15}
LimitInputs == (0..5) \cup {DefaultLimit, MaxPerPage, MaxPerPage + 1}

\* `pb collections <collection> list --offset o --limit l`, from the handler on
ListAction(args, offset, limit) ==
  LET r == handleListAction(args, offset, limit)
  IN out' = [op |-> "list", args |-> args, offset |-> offset, limit |-> limit,
             err |-> r.err, request |-> r.request]

(***************************************************************************)
(* The check the `pb backup` commands make of the active context before   *)
(* they do anything else (package backup), next to the one                 *)
(* `pb collections` makes.                                                 *)
(***************************************************************************)
\* validateActiveContext of package backup on a loaded context; t is
\* time.Now()
BackupAccepts(c, t) ==
  IF c.PocketBase.AuthToken = "" THEN ErrAuthRequired
  ELSE IF c.PocketBase.AuthExpires # <<>> /\ c.PocketBase.AuthExpires[1] < t THEN ErrAuthExpired
  ELSE ErrNone

\* validateActiveContext of package collections on a loaded context
CollectionsAccepts(source, c, t) ==
  IF c.PocketBase.AuthToken = "" THEN ErrAuthRequired
  ELSE IF ~IsAuthValid(source, c, t) THEN ErrAuthExpired
  ELSE ErrNone

\* A `pb backup` subcommand, up to the end of validateActiveContext
BackupRun(f, t) ==
  LET a == GetActiveContext(PreRun(f))
  IN IF a.err # ErrNone THEN [fs |-> a.fs, err |-> ErrNoActiveContext, ctx |-> NoContext]
     ELSE [fs |-> a.fs, err |-> BackupAccepts(a.val, t), ctx |-> a.val]

\* `pb backup list`, one process
BackupCommand ==
  LET r == BackupRun(fs, now)
  IN /\ fs' = r.fs
     /\ last' = Done("backup", FALSE, r.err)
     /\ out' = [op |-> "backup", ctx |-> r.ctx, now |-> now, err |-> r.err]

(***************************************************************************)
(* Commands that run at the same time on context a, one step per read or  *)
(* write of the files: `pb context create a`, `pb context select a`,       *)
(* `pb context delete a --force`, `pb context collections add users` and   *)
(* `pb auth`.  A command keeps what it has read in its own memory (g, ctx, *)
(* isActive) between its steps.                                            *)
(***************************************************************************)
\* A process that runs no command.
Resting ==
  [pc |-> "idle", cmd |-> "", g |-> DefaultGlobalConfig, ctx |-> NoContext,
   isActive |-> FALSE, err |-> ErrNone]

\* The context `pb context create a --url ... --collections posts` saves.
CreatedA == NewContext(ContextA, "http://localhost:8090", AuthCollectionUsers, <<"posts">>)

\* The first step of each command after rootCmd.PersistentPreRunE.
FirstStep(cmd) ==
  CASE cmd = "create" -> "exists"
    [] cmd = "select" -> "load"
    [] cmd = "delete" -> "load"
    [] cmd = "add" -> "loadcfg"
    [] cmd = "auth" -> "loadcfg"

\* os.WriteFile of context.yaml: it fails when the directory is gone
WriteFileStep(f, dir, doc) ==
  IF dir \in f.dirs THEN [fs |-> WriteContextFile(f, dir, doc), err |-> ErrNone]
  ELSE [fs |-> f, err |-> ErrIO]

\* The next read or write of the command pr runs on the files f: the files
\* and the process after it, and "created" or "deleted" when the step puts
\* a's context.yaml there or removes a's directory.
Advance(f, source, t, pr) ==
  LET dir == GetContextDir(ContextA)
      Goto(f1, pr1, pc) == [fs |-> f1, proc |-> [pr1 EXCEPT !.pc = pc], event |-> ""]
      Return(f1, err, event) ==
        [fs |-> f1, proc |-> [Resting EXCEPT !.err = err], event |-> event]
      l == LoadContext(f, ContextA)
      g == LoadGlobalConfig(f)
      w == WriteFileStep(f, dir, MarshalContext(pr.ctx))
  IN CASE pr.cmd = "create" /\ pr.pc = "exists" ->
            IF ContextExists(f, ContextA) THEN Return(f, ErrAlreadyExists, "")
            ELSE Goto(f, [pr EXCEPT !.ctx = CreatedA], "mkdir")
       [] pr.cmd \in {"create", "add", "auth"} /\ pr.pc = "mkdir" ->
            Goto(MkdirAll(f, dir), pr, "write")
       [] pr.cmd \in {"create", "add", "auth"} /\ pr.pc = "write" ->
            Return(w.fs, w.err,
                   IF w.err = ErrNone /\ pr.cmd = "create" THEN "created" ELSE "")
       [] pr.cmd = "select" /\ pr.pc = "load" ->
            IF l.err # ErrNone THEN Return(f, ErrNotFound, "") ELSE Goto(f, pr, "verify")
       [] pr.cmd = "select" /\ pr.pc = "verify" ->
            IF l.err # ErrNone THEN Return(f, l.err, "") ELSE Goto(f, pr, "loadcfg")
       [] pr.cmd = "select" /\ pr.pc = "loadcfg" ->
            IF g.err # ErrNone THEN Return(g.fs, ErrIO, "")
            ELSE Goto(g.fs, [pr EXCEPT !.g = [g.val EXCEPT !.ActiveContext = ContextA]], "savecfg")
       [] pr.cmd \in {"select", "delete"} /\ pr.pc = "savecfg" ->
            LET s == SaveGlobalConfig(f, pr.g) IN Return(s.fs, s.err, "")
       [] pr.cmd = "delete" /\ pr.pc = "load" ->
            IF l.err # ErrNone THEN Return(f, ErrNotFound, "") ELSE Goto(f, pr, "loadcfg")
       [] pr.cmd = "delete" /\ pr.pc = "loadcfg" ->
            IF g.err # ErrNone THEN Return(g.fs, ErrIO, "")
            ELSE Goto(g.fs, [pr EXCEPT !.g = [g.val EXCEPT !.ActiveContext = <<>>],
                                       !.isActive = g.val.ActiveContext = ContextA], "stat")
       [] pr.cmd = "delete" /\ pr.pc = "stat" ->
            IF dir \notin f.dirs THEN Return(f, ErrNotFound, "") ELSE Goto(f, pr, "remove")
       [] pr.cmd = "delete" /\ pr.pc = "remove" ->
            IF pr.isActive
            THEN [Goto(RemoveAll(f, dir), pr, "savecfg") EXCEPT !.event = "deleted"]
            ELSE Return(RemoveAll(f, dir), ErrNone, "deleted")
       [] pr.cmd \in {"add", "auth"} /\ pr.pc = "loadcfg" ->
            IF g.err # ErrNone THEN Return(g.fs, ErrIO, "")
            ELSE IF g.val.ActiveContext = <<>> THEN Return(g.fs, ErrNoActiveContext, "")
            ELSE Goto(g.fs, [pr EXCEPT !.g = g.val], "loadactive")
       [] pr.cmd = "add" /\ pr.pc = "loadactive" ->
            LET a == LoadContext(f, pr.g.ActiveContext)
                ctx == AddEach(a.val, <<"users">>)
            IN IF a.err # ErrNone THEN Return(f, ErrNoActiveContext, "")
               ELSE IF ctx = a.val THEN Return(f, ErrNone, "")
               ELSE Goto(f, [pr EXCEPT !.ctx = ctx], "mkdir")
       [] pr.cmd = "auth" /\ pr.pc = "loadactive" ->
            LET a == LoadContext(f, pr.g.ActiveContext)
                pbCollection == IF a.val.PocketBase.AuthCollection # ""
                                THEN a.val.PocketBase.AuthCollection
                                ELSE AuthCollectionUsers
                updated == UpdateAuthContextFromResponse(source, a.val, GoodAuth.reply, t)
            IN IF a.err # ErrNone THEN Return(f, ErrNoActiveContext, "")
               ELSE Goto(f, [pr EXCEPT !.ctx = [updated.ctx EXCEPT
                                                  !.PocketBase.AuthCollection = pbCollection]],
                         "mkdir")

\* A command starts: rootCmd.PersistentPreRunE
CommandBegin(p, cmd) ==
  /\ procs[p].pc = "idle"
  /\ procs' = [procs EXCEPT ![p] = [Resting EXCEPT !.cmd = cmd, !.pc = FirstStep(cmd)]]
  /\ fs' = PreRun(fs)
  /\ UNCHANGED last

\* A command makes its next read or write; one that has returned rests
CommandStep(p) ==
  /\ procs[p].pc # "idle"
  /\ LET r == Advance(fs, authSource, now, procs[p])
     IN /\ procs' = [procs EXCEPT ![p] = r.proc]
        /\ fs' = r.fs
        /\ last' = IF r.event # "" THEN Done(r.event, FALSE, ErrNone) ELSE last

(***************************************************************************)
(* `pb context show` (cmd/context/show.go).  What it prints is kept as the *)
(* document it marshals (json, yaml) or as the list of the values it       *)
(* prints between the fixed texts (table).                                 *)
(***************************************************************************)
\* What show writes in place of a token.
HiddenToken == "***HIDDEN***"

\* displayCtx: a copy of the context whose non-empty token is replaced
DisplayCtx(c) ==
  IF c.PocketBase.AuthToken # ""
  THEN [c EXCEPT !.PocketBase.AuthToken = HiddenToken]
  ELSE c

\* json.MarshalIndent(displayCtx): Context has no json tags, the keys are
\* the Go field names
MarshalIndent(c) == c

\* showContextTable: the values printed, line by line
showContextTable(c, isActive, source, t) ==
  LET pb == c.PocketBase
      status == IF pb.AuthToken = "" THEN <<"Not Authenticated">>
                ELSE IF IsAuthValid(source, c, t) THEN <<"Valid", pb.AuthExpires>>
                ELSE <<"Expired", pb.AuthExpires>>
      hints == IF ~isActive THEN <<"Select this context", c.Name>>
                  ELSE IF pb.AuthToken = "" \/ ~IsAuthValid(source, c, t)
                       THEN IF Len(pb.AvailableCollections) = 0
                            THEN <<"Authenticate", "Add collections">>
                            ELSE <<"Authenticate">>
                  ELSE IF Len(pb.AvailableCollections) = 0 THEN <<"Add collections">>
                  ELSE <<"Available Operations",
                         SubSeq(pb.AvailableCollections, 1,
                                IF Len(pb.AvailableCollections) < 3
                                THEN Len(pb.AvailableCollections) ELSE 3),
                         IF Len(pb.AvailableCollections) > 3
                         THEN Len(pb.AvailableCollections) - 3 ELSE 0>>
  IN [header |-> <<c.Name, isActive>>,
      directory |-> GetContextDir(c.Name),
      url |-> pb.URL,
      authCollection |-> pb.AuthCollection,
      authentication |-> status,
      collections |-> <<Len(pb.AvailableCollections), pb.AvailableCollections>>,
      commands |-> hints]

\* showCmd.RunE printing the context itself in json, the token not replaced
ShowRunPrintsToken(f, source, t, args, format) ==
  LET f0 == PreRun(f)
      a == GetActiveContext(f0)
      l == LoadContext(f0, args[1])
      ctx == IF args = <<>> THEN a.val ELSE l.val
      contextName == IF args = <<>> THEN ctx.Name ELSE args[1]
      f1 == IF args = <<>> THEN a.fs ELSE f0
      g == LoadGlobalConfig(f1)
      isActive == g.val.ActiveContext = contextName
      Failed(f2, err) == [fs |-> f2, err |-> err, output |-> <<>>]
  IN IF args = <<>> /\ a.err # ErrNone THEN Failed(a.fs, ErrNoActiveContext)
     ELSE IF args # <<>> /\ l.err # ErrNone THEN Failed(f0, ErrNotFound)
     ELSE IF g.err # ErrNone THEN Failed(g.fs, ErrIO)
     ELSE CASE format = "json" ->
                 [fs |-> g.fs, err |-> ErrNone, output |-> <<"json", MarshalIndent(ctx)>>]
            [] format = "yaml" ->
                 [fs |-> g.fs, err |-> ErrNone,
                  output |-> <<"yaml", MarshalContext(DisplayCtx(ctx))>>]
            [] format \in {"table", ""} ->
                 [fs |-> g.fs, err |-> ErrNone,
                  output |-> <<"table", showContextTable(ctx, isActive, source, t)>>]
            [] OTHER -> Failed(g.fs, ErrInvalidArgument)

\* showCmd.RunE: `pb context show [name] --output format`; format is the
\* flag in lower case, t the clock reading of IsAuthValid
ShowRun(f, source, t, args, format) ==
  LET f0 == PreRun(f)
      a == GetActiveContext(f0)
      l == LoadContext(f0, args[1])
      ctx == IF args = <<>> THEN a.val ELSE l.val
      contextName == IF args = <<>> THEN ctx.Name ELSE args[1]
      f1 == IF args = <<>> THEN a.fs ELSE f0
      g == LoadGlobalConfig(f1)
      isActive == g.val.ActiveContext = contextName
      Failed(f2, err) == [fs |-> f2, err |-> err, output |-> <<>>]
  IN IF args = <<>> /\ a.err # ErrNone THEN Failed(a.fs, ErrNoActiveContext)
     ELSE IF args # <<>> /\ l.err # ErrNone THEN Failed(f0, ErrNotFound)
     ELSE IF g.err # ErrNone THEN Failed(g.fs, ErrIO)
     ELSE CASE format = "json" ->
                 [fs |-> g.fs, err |-> ErrNone,
                  output |-> <<"json", MarshalIndent(DisplayCtx(ctx))>>]
            [] format = "yaml" ->
                 [fs |-> g.fs, err |-> ErrNone,
                  output |-> <<"yaml", MarshalContext(DisplayCtx(ctx))>>]
            [] format \in {"table", ""} ->
                 [fs |-> g.fs, err |-> ErrNone,
                  output |-> <<"table", showContextTable(ctx, isActive, source, t)>>]
            [] OTHER -> Failed(g.fs, ErrInvalidArgument)

\* The tokens of the stored contexts.
TokenInputs == {"tok", JwtExpiring(3)}

\* Context a as stored: never authenticated, or with a token, with and
\* without an expiry.
ShowInputs ==
  {NewContext(ContextA, "http://localhost:8090", AuthCollectionUsers, <<"posts">>)}
    \cup {[c EXCEPT !.PocketBase.AuthToken = tok] : c \in SessionInputs, tok \in TokenInputs}

ShowArgs == {<<>>, <<ContextA>>, <<<<LowerA, LowerA>>>>}
ShowFormats == {"json", "yaml", "table", "", "xml"}

\* `pb context show`, one process
ContextShow(args, format) ==
  LET r == ShowRun(fs, authSource, now, args, format)
  IN /\ fs' = r.fs
     /\ last' = Done("show", FALSE, r.err)
     /\ out' = [op |-> "show", args |-> args, format |-> format,
                err |-> r.err, output |-> r.output]

(***************************************************************************)
(* The specifications.                                                     *)
(***************************************************************************)
\* The registry and the resolver read no clock.
ClockInit ==
  /\ now = 0
  /\ authSource = "internal/pocketbase/auth.go"

RaceInit ==
  /\ procs = [p \in Procs |-> Idle]
  /\ raw = NoFileYet

RegistryInit ==
  /\ fs = EmptyFS
  /\ last = Done("init", FALSE, ErrNone)

\* NewCommandResolver
ResolverInit ==
  /\ commands = InitialCommands
  /\ res = Returned("init", <<>>, Result(ErrNone, <<>>, <<>>))

\* Nothing has run.
IoInit == out = [op |-> "init"]

Init ==
  /\ RegistryInit
  /\ ResolverInit
  /\ ClockInit
  /\ RaceInit
  /\ IoInit

Next ==
  \/ \E name \in Names, flags \in CreateFlags :
       ContextCreate(name, flags) /\ UNCHANGED <<resolverVars, clockVars, raceVars, ioVars>>
  \/ \E name \in Names :
       ContextSelect(name) /\ UNCHANGED <<resolverVars, clockVars, raceVars, ioVars>>
  \/ \E name \in Names, confirmed \in BOOLEAN :
       ContextDelete(name, confirmed) /\ UNCHANGED <<resolverVars, clockVars, raceVars, ioVars>>
  \/ \E c \in SaveInputs :
       SaveContextCall(c) /\ UNCHANGED <<resolverVars, clockVars, raceVars, ioVars>>
  \/ \E name \in Names :
       LoadContextCall(name) /\ UNCHANGED <<resolverVars, clockVars, raceVars, ioVars>>
  \/ ListContextsCall /\ UNCHANGED <<resolverVars, clockVars, raceVars, ioVars>>
  \/ \E name \in Names :
       DeleteContextCall(name) /\ UNCHANGED <<resolverVars, clockVars, raceVars, ioVars>>
  \/ GetActiveContextCall /\ UNCHANGED <<resolverVars, clockVars, raceVars, ioVars>>
  \/ \E name \in Names :
       SetActiveContextCall(name) /\ UNCHANGED <<resolverVars, clockVars, raceVars, ioVars>>

Spec == Init /\ [][Next]_vars

\* Calls on one resolver, from NewCommandResolver on.
NextResolver ==
  \/ \E category \in AddCategories, command \in AddableCommands :
       AddCommandCall(category, command) /\ UNCHANGED <<registryVars, clockVars, raceVars, ioVars>>
  \/ \E category \in Categories, partial \in Partials :
       ResolveCommandCall(category, partial) /\ UNCHANGED <<registryVars, clockVars, raceVars, ioVars>>
  \/ \E category \in Categories, command \in Words \cup {CmdNone} :
       GetMinimumPrefixCall(category, command) /\ UNCHANGED <<registryVars, clockVars, raceVars, ioVars>>
  \/ \E collection \in CollectionInputs, availableCollections \in AvailableInputs :
       ValidateCollectionCall(collection, availableCollections)
         /\ UNCHANGED <<registryVars, clockVars, raceVars, ioVars>>

SpecResolver == Init /\ [][NextResolver]_vars

\* The commands that work on the collections and the authentication of one
\* context, under either build of package pocketbase.
CollectionsInit ==
  /\ RegistryInit
  /\ ResolverInit
  /\ now = 0
  /\ authSource \in AuthSources
  /\ RaceInit
  /\ IoInit

NextCollections ==
  \/ \E flags \in CollectionFlags :
       ContextCreate(ContextA, flags) /\ UNCHANGED <<resolverVars, clockVars, raceVars, ioVars>>
  \/ ContextSelect(ContextA) /\ UNCHANGED <<resolverVars, clockVars, raceVars, ioVars>>
  \/ \E c \in SessionInputs :
       SaveContextCall(c) /\ UNCHANGED <<resolverVars, clockVars, raceVars, ioVars>>
  \/ \E args \in AddArgs :
       AddCollections(args) /\ UNCHANGED <<resolverVars, clockVars, raceVars, ioVars>>
  \/ \E collection \in RemoveArgs :
       RemoveCollections(collection) /\ UNCHANGED <<resolverVars, clockVars, raceVars, ioVars>>
  \/ ClearCollections /\ UNCHANGED <<resolverVars, clockVars, raceVars, ioVars>>
  \/ \E collection \in CollectionArgs, action \in ActionArgs :
       CollectionsCommand(collection, action) /\ UNCHANGED <<resolverVars, clockVars, raceVars, ioVars>>
  \/ Tick /\ UNCHANGED <<registryVars, resolverVars, authSource, raceVars, ioVars>>

SpecCollections == CollectionsInit /\ [][NextCollections]_vars

\* Two invocations on context a, interleaved step by step.
NextRace ==
  \/ CreateAlone /\ UNCHANGED <<registryVars, resolverVars, clockVars, ioVars>>
  \/ \E p \in Procs, op \in RaceOps :
       Begin(p, op) /\ UNCHANGED <<registryVars, resolverVars, clockVars, ioVars>>
  \/ \E p \in Procs : Open(p) /\ UNCHANGED <<registryVars, resolverVars, clockVars, ioVars>>
  \/ \E p \in Procs : Write(p) /\ UNCHANGED <<registryVars, resolverVars, clockVars, ioVars>>
  \/ Exit /\ UNCHANGED <<registryVars, resolverVars, clockVars, ioVars>>

SpecRace == Init /\ [][NextRace]_vars

\* `pb auth` on context a, under either build of package pocketbase.
NextAuth ==
  \/ \E flags \in {fl \in CollectionFlags : fl.collections = <<>>} :
       ContextCreate(ContextA, flags) /\ UNCHANGED <<resolverVars, clockVars, raceVars, ioVars>>
  \/ ContextSelect(ContextA) /\ UNCHANGED <<resolverVars, clockVars, raceVars, ioVars>>
  \/ \E in \in AuthRuns :
       AuthCommand(in) /\ UNCHANGED <<resolverVars, clockVars, raceVars>>
  \/ Tick /\ UNCHANGED <<registryVars, resolverVars, authSource, raceVars, ioVars>>

SpecAuth == CollectionsInit /\ [][NextAuth]_vars

\* Calls of UpdateAuthContextFromResponse at every clock reading, under
\* either build of package pocketbase.
NextAuthResult ==
  \/ \E c \in SessionInputs, authResp \in ResponseInputs :
       UpdateAuthContextFromResponseCall(c, authResp)
         /\ UNCHANGED <<registryVars, resolverVars, clockVars, raceVars>>
  \/ Tick /\ UNCHANGED <<registryVars, resolverVars, authSource, raceVars, ioVars>>

SpecAuthResult == CollectionsInit /\ [][NextAuthResult]_vars

\* Calls of ValidateURL.
NextValidateURL ==
  \E urlStr \in UrlInputs :
    ValidateURLCall(urlStr) /\ UNCHANGED <<registryVars, resolverVars, clockVars, raceVars>>

SpecValidateURL == Init /\ [][NextValidateURL]_vars

\* Runs of the list action.
NextList ==
  \E args \in {<<>>, <<"extra">>}, offset \in OffsetInputs, limit \in LimitInputs :
    ListAction(args, offset, limit) /\ UNCHANGED <<registryVars, resolverVars, clockVars, raceVars>>

SpecList == Init /\ [][NextList]_vars

\* The backup commands on context a while the clock runs, under either
\* build of package pocketbase.
NextBackup ==
  \/ \E flags \in {fl \in CollectionFlags : fl.collections = <<>>} :
       ContextCreate(ContextA, flags) /\ UNCHANGED <<resolverVars, clockVars, raceVars, ioVars>>
  \/ ContextSelect(ContextA) /\ UNCHANGED <<resolverVars, clockVars, raceVars, ioVars>>
  \/ \E c \in SessionInputs :
       SaveContextCall(c) /\ UNCHANGED <<resolverVars, clockVars, raceVars, ioVars>>
  \/ BackupCommand /\ UNCHANGED <<resolverVars, clockVars, raceVars>>
  \/ Tick /\ UNCHANGED <<registryVars, resolverVars, authSource, raceVars, ioVars>>

SpecBackup == CollectionsInit /\ [][NextBackup]_vars

\* Two invocations of create, select and delete on context a, interleaved
\* read by read and write by write.
CommandsInit ==
  /\ RegistryInit
  /\ ResolverInit
  /\ ClockInit
  /\ procs = [p \in Procs |-> Resting]
  /\ raw = NoFileYet
  /\ IoInit

NextActiveRace ==
  \/ \E p \in Procs, cmd \in {"create", "select", "delete"} :
       CommandBegin(p, cmd) /\ UNCHANGED <<resolverVars, clockVars, raw, ioVars>>
  \/ \E p \in Procs :
       CommandStep(p) /\ UNCHANGED <<resolverVars, clockVars, raw, ioVars>>

SpecActiveRace == CommandsInit /\ [][NextActiveRace]_vars

\* The same with the commands that load a context and save it later.
NextSaveRace ==
  \/ \E p \in Procs, cmd \in {"create", "select", "delete", "add", "auth"} :
       CommandBegin(p, cmd) /\ UNCHANGED <<resolverVars, clockVars, raw, ioVars>>
  \/ \E p \in Procs :
       CommandStep(p) /\ UNCHANGED <<resolverVars, clockVars, raw, ioVars>>

SpecSaveRace == CommandsInit /\ [][NextSaveRace]_vars

\* `pb context show` on context a, selected or not, authenticated or not,
\* while the clock runs, under either build of package pocketbase.
NextShow ==
  \/ ContextSelect(ContextA) /\ UNCHANGED <<resolverVars, clockVars, raceVars, ioVars>>
  \/ \E c \in ShowInputs :
       SaveContextCall(c) /\ UNCHANGED <<resolverVars, clockVars, raceVars, ioVars>>
  \/ \E args \in ShowArgs, format \in ShowFormats :
       ContextShow(args, format) /\ UNCHANGED <<resolverVars, clockVars, raceVars>>
  \/ Tick /\ UNCHANGED <<registryVars, resolverVars, authSource, raceVars, ioVars>>

SpecShow == CollectionsInit /\ [][NextShow]_vars

(***************************************************************************)
(* What the claims speak of.                                               *)
(***************************************************************************)
\* The names carried by the stored context records.
RecordNames(f) == {f.ctx[d].name : d \in DOMAIN f.ctx}

\* GlobalConfig.active_context as stored; empty while no config.yaml exists.
ActiveContextOf(f) == IF f.cfg = NoFile THEN <<>> ELSE f.cfg[1].active_context

\* Flags that pass every test of createCmd other than those on the name.
GoodFlags == {fl \in CreateFlags : fl.url # "" /\ \A i \in 1..Len(fl.collections) : fl.collections[i] # ""}

(***************************************************************************)
(* C1..C10                                                                 *)
(***************************************************************************)
\* C1: for every name under which a context is stored, `pb context create`
\* fails with AlreadyExists and leaves every stored context record as it was.
C1_CreateExistingFails ==
  \A name \in Names, flags \in GoodFlags :
    Persisted(fs, name) =>
      LET r == CreateRun(fs, name, flags)
      IN r.err = ErrAlreadyExists /\ r.fs.ctx = fs.ctx

C1_Witness == last.op = "create" /\ last.stored /\ last.err = ErrAlreadyExists

\* C2 (as claimed): ListContexts returns, as a set, exactly the names of the
\* contexts that were created and not deleted since: the names the stored
\* context records carry.
C2_ListIsCreatedMinusDeleted == ListContexts(NewManager(fs)).val = RecordNames(fs)

\* C3: for the name of any stored context record, SetActiveContext succeeds
\* and the GetActiveContext that follows returns a context of that name.
C3_SetThenGetActive ==
  \A name \in RecordNames(fs) :
    LET s == SetActiveContext(NewManager(fs), name)
        g == GetActiveContext(s.fs)
    IN s.err = ErrNone /\ g.err = ErrNone /\ g.val.Name = name

C3_Witness ==
  /\ last.op = "SetActiveContext" /\ last.err = ErrNone
  /\ ActiveContextOf(fs) \in RecordNames(fs)
  /\ GetActiveContext(fs).val.Name = ActiveContextOf(fs)

C5_DeleteKeepsGlobalConfig ==
  [][(last'.op = "DeleteContext" /\ last'.stored /\ last'.err = ErrNone) =>
       fs'.cfg = fs.cfg]_vars

\* C6 (as claimed): when `pb context delete` removes the context that is
\* active, active_context is empty afterwards; when it removes another context,
\* active_context keeps its value.
C6_DeleteCommandClearsActive ==
  [][(last'.op = "delete" /\ last'.err = ErrNone) =>
       LET a == ActiveContextOf(fs)
       IN IF Persisted(fs, a) /\ ~Persisted(fs', a)
          THEN ActiveContextOf(fs') = <<>>
          ELSE ActiveContextOf(fs') = a]_vars

C8_CreateRejectsInvalidNames ==
  [][(last'.op = "create" /\ last'.err = ErrNone) =>
       \A d \in DOMAIN fs'.ctx :
         (d \notin DOMAIN fs.ctx \/ fs'.ctx[d] # fs.ctx[d]) => ValidateContextName(fs'.ctx[d].name)]_vars

\* C9 (as claimed): after a SaveContext that succeeds, the directory of the
\* saved context and its backups directory both exist.
C9_SaveProvisionsBackupDir ==
  [][(last'.op = "SaveContext" /\ last'.err = ErrNone) =>
       \A d \in DOMAIN fs'.ctx :
         (d \notin DOMAIN fs.ctx \/ fs'.ctx[d] # fs.ctx[d]) =>
           /\ GetContextDir(fs'.ctx[d].name) \in fs'.dirs
           /\ GetBackupDir(fs'.ctx[d].name) \in fs'.dirs]_vars

SavingOps == {"select", "delete", "SetActiveContext"}

\* C11 (as claimed): LoadGlobalConfig returns the defaults and stores them
\* when no config.yaml was saved, two consecutive loads return equal values,
\* and whatever runs without saving a GlobalConfig leaves the value that
\* LoadGlobalConfig returns as it was: it is still the one saved last.
C11_LoadReturnsLastSaved ==
  [][LET before == LoadGlobalConfig(NewManager(fs))
         after == LoadGlobalConfig(NewManager(fs'))
         again == LoadGlobalConfig(after.fs)
     IN /\ again.val = after.val
        /\ again.fs = after.fs
        /\ (fs.cfg = NoFile =>
              before.val = DefaultGlobalConfig /\ before.fs.cfg = <<MarshalGlobal(DefaultGlobalConfig)>>)
        /\ (last'.op \notin SavingOps => after.val = before.val)]_vars

\* The positions of the commands of a list that a partial selects.
Hits(list, partial) ==
  {i \in 1..Len(list) : HasPrefix(ToLower(list[i]), ToLower(partial))}

\* C12: in a known category, a non-empty partial that is a prefix (without
\* regard to case) of exactly one command resolves to that command as the
\* vocabulary stores it, and so does every upper/lower-case variant of it.
C12_UniquePrefixResolves ==
  \A category \in DOMAIN commands, partial \in Partials \ {<<>>} :
    LET list == commands[category]
        hits == Hits(list, partial)
    IN Cardinality(hits) = 1 =>
         LET cmd == list[CHOOSE i \in hits : TRUE]
         IN /\ ResolveCommand(commands, category, partial) = Result(ErrNone, cmd, <<>>)
            /\ ResolveCommand(commands, category, ToUpper(partial)) = Result(ErrNone, cmd, <<>>)
            /\ ResolveCommand(commands, category, ToLower(partial)) = Result(ErrNone, cmd, <<>>)

\* A command stored with a capital letter was resolved from a partial and
\* returned as stored.
C12_Witness ==
  /\ res.op = "ResolveCommand"
  /\ res.err = ErrNone
  /\ res.val = CmdListCapital

\* C13: when two or more commands match, ResolveCommand returns no command
\* and AmbiguousCommand, and the message lists exactly the matching commands
\* in ascending order, whatever the order of the vocabulary.
C13_AmbiguousListsSorted ==
  \A category \in DOMAIN commands, partial \in Partials \ {<<>>} :
    LET list == commands[category]
        hits == Hits(list, partial)
        r == ResolveCommand(commands, category, partial)
    IN Cardinality(hits) >= 2 =>
         /\ r.err = ErrAmbiguousCommand
         /\ r.val = <<>>
         /\ Len(r.listed) = Cardinality(hits)
         /\ {r.listed[i] : i \in 1..Len(r.listed)} = {list[i] : i \in hits}
         /\ \A i, j \in 1..Len(r.listed) : i < j => StringLess(r.listed[i], r.listed[j])

\* "c" in category context: create is declared before collections, the
\* message lists collections first.
C13_Witness ==
  /\ res.op = "ResolveCommand"
  /\ res.err = ErrAmbiguousCommand
  /\ res.listed = <<CmdCollections, CmdCreate>>

\* C14: an unknown category fails with UnknownCategory whatever the partial,
\* a known category with an empty partial fails with EmptyCommand, a
\* non-empty partial that matches nothing fails with UnknownCommand and the
\* message lists every command of the category; no failure returns a command.
C14_FailureOrder ==
  \A category \in Categories, partial \in Partials :
    LET r == ResolveCommand(commands, category, partial)
    IN /\ category \notin DOMAIN commands => r.err = ErrUnknownCategory
       /\ (category \in DOMAIN commands /\ partial = <<>>) => r.err = ErrEmptyCommand
       /\ (category \in DOMAIN commands /\ partial # <<>>
             /\ Hits(commands[category], partial) = {}) =>
            (r.err = ErrUnknownCommand /\ r.listed = commands[category])
       /\ r.err # ErrNone => r.val = <<>>

\* An unknown command in a category that AddCommand has extended: the
\* message lists the built-in commands and the added one.
C14_Witness ==
  /\ res.op = "ResolveCommand"
  /\ res.err = ErrUnknownCommand
  /\ res.listed = commands["context"]
  /\ Len(res.listed) > Len(InitialCommands["context"])

\* C15 (as claimed): for every command c of every category, GetMinimumPrefix
\* returns a prefix p of c that selects c only, no shorter prefix of c does,
\* and ResolveCommand(category, p) returns c.
C15_MinimumPrefixResolves ==
  \A category \in DOMAIN commands :
    \A n \in 1..Len(commands[category]) :
      LET list == commands[category]
          c == list[n]
          r == GetMinimumPrefix(commands, category, c)
          Only(q) == \A i \in Hits(list, q) : list[i] = c
      IN /\ r.err = ErrNone
         /\ r.val # <<>>
         /\ HasPrefix(c, r.val)
         /\ Only(r.val)
         /\ \A k \in 1..(Len(r.val) - 1) : ~Only(SubSeq(c, 1, k))
         /\ ResolveCommand(commands, category, r.val) = Result(ErrNone, c, <<>>)

\* C16: ValidateCollection fails with Required for the empty name, succeeds
\* for a name equal to an entry of the list, and otherwise fails with
\* NotConfigured, the message carrying the name and the entries in their
\* configured order (none when the list is empty).
C16_ValidateCollection ==
  res.op = "ValidateCollection" =>
    LET collection == res.args[1]
        availableCollections == res.args[2]
        configured == \E i \in 1..Len(availableCollections) :
                        availableCollections[i] = collection
    IN /\ collection = "" => res.err = ErrRequired
       /\ (collection # "" /\ configured) => res.err = ErrNone
       /\ (collection # "" /\ ~configured) =>
            (res.err = ErrNotConfigured /\ res.val = collection
               /\ res.listed = availableCollections)

\* A name that differs from a configured one in case only was refused.
C16_Witness ==
  /\ res.op = "ValidateCollection"
  /\ res.err = ErrNotConfigured
  /\ res.args = <<"Posts", <<"users", "posts">>>>
  /\ res.listed = <<"users", "posts">>

\* Validity as the claim defines it: a token, and no expiry or a clock
\* strictly before the expiry.
ClaimedValid(c, t) ==
  /\ c.PocketBase.AuthToken # ""
  /\ (c.PocketBase.AuthExpires = <<>> \/ t < c.PocketBase.AuthExpires[1])

\* C17 (as claimed): IsAuthValid is false for an empty token, true for a
\* token without expiry, and otherwise true exactly while the clock is
\* strictly before auth_expires.
C17_IsAuthValid ==
  \A c \in AuthInputs : IsAuthValid(authSource, c, now) = ClaimedValid(c, now)

\* The entries of a list are pairwise different.
NoDuplicates(list) ==
  \A i, j \in 1..Len(list) : list[i] = list[j] => i = j

\* C19 (as claimed): after every create, add, remove and clear, no stored
\* available_collections holds an entry twice, and the entries keep the order
\* in which they were added: add appends to the stored list, remove takes
\* entries out of it.
C19_CollectionsUniqueOrdered ==
  [][\A d \in DOMAIN fs'.ctx :
       LET new == fs'.ctx[d].pocketbase.available_collections
       IN /\ NoDuplicates(new)
          /\ (d \in DOMAIN fs.ctx /\ last'.op = "add") =>
               IsPrefix(fs.ctx[d].pocketbase.available_collections, new)
          /\ (d \in DOMAIN fs.ctx /\ last'.op = "remove") =>
               LET old == fs.ctx[d].pocketbase.available_collections
               IN new = old \/ \E i \in 1..Len(old) :
                                 new = SubSeq(old, 1, i - 1) \o SubSeq(old, i + 1, Len(old))]_vars

\* C20 (as claimed): with an active context whose authentication is valid, a
\* collection of its available_collections and an action that is a prefix of
\* exactly one of list, get, create, update, delete, `pb collections` reaches
\* the handler of the resolved action.
C20_CollectionsDispatches ==
  \A collection \in CollectionArgs, action \in ActionArgs :
    LET a == GetActiveContext(PreRun(fs))
        actions == InitialCommands["collections"]
        hits == Hits(actions, action)
        r == CollectionsRun(fs, authSource, now, collection, action)
    IN (/\ a.err = ErrNone
        /\ ClaimedValid(a.val, now)
        /\ IsCollectionAvailable(a.val, collection)
        /\ action # <<>>
        /\ Cardinality(hits) = 1) =>
         (r.err = ErrNone /\ r.handler = actions[CHOOSE i \in hits : TRUE])

\* C18 (as claimed): when two invocations have loaded the same stored
\* context and both have saved, the file holds exactly what the one that
\* wrote later wrote, and neither save failed.
C18_LastWriterWins ==
  [][\A p, q \in Procs :
       (/\ p # q
        /\ procs[p].pc = "opened" /\ procs'[p].pc = "saved"
        /\ procs[q].pc = "saved"
        /\ procs[p].base = procs[q].base) =>
         (/\ raw'.lines = Lines(MarshalContext(procs[p].local))
          /\ ParseLines(raw'.lines) = [err |-> ErrNone, val |-> procs[p].local])]_vars

(***************************************************************************)
(* C21..C30                                                                *)
(***************************************************************************)
\* C21: a call of UpdateAuthContextFromResponse with a response sets the
\* context's AuthToken and AuthRecord to the response's token and record
\* and AuthExpires to a time: the exp claim of the token when the token
\* carries one, the clock reading plus seven days otherwise; a call with
\* a nil response returns an error and leaves the context as it was.
C21_ApplyAuthResult ==
  out.op = "UpdateAuthContextFromResponse" =>
    IF out.authResp = <<>>
    THEN out.err # ErrNone /\ out.val = out.ctx
    ELSE LET resp == out.authResp[1]
             pb == out.val.PocketBase
         IN /\ out.err = ErrNone
            /\ pb.AuthToken = resp.Token
            /\ pb.AuthRecord = resp.Record
            /\ pb.AuthExpires # <<>>
            /\ \A e \in ClaimedExpiries :
                 resp.Token = JwtExpiring(e) => pb.AuthExpires = <<e>>
            /\ (\A e \in ClaimedExpiries : resp.Token # JwtExpiring(e)) =>
                 pb.AuthExpires = <<out.now + SevenDays>>
            /\ out.val = [out.ctx EXCEPT !.PocketBase.AuthToken = pb.AuthToken,
                                         !.PocketBase.AuthRecord = pb.AuthRecord,
                                         !.PocketBase.AuthExpires = pb.AuthExpires]

\* The URL has a scheme or a host: url.Parse finds one.
HasScheme(urlStr) == Parse(urlStr).err = ErrNone /\ Parse(urlStr).Scheme # <<>>
HasHost(urlStr) == Parse(urlStr).err = ErrNone /\ Parse(urlStr).Host # <<>>

\* C22: ValidateURL returns an error for the empty string, for every URL
\* without a scheme and for every URL without a host, and no error for a
\* URL that has both.
C22_ValidateURL ==
  out.op = "ValidateURL" =>
    /\ (out.url = <<>> => out.err # ErrNone)
    /\ (~HasScheme(out.url) => out.err # ErrNone)
    /\ (~HasHost(out.url) => out.err # ErrNone)
    /\ (HasScheme(out.url) /\ HasHost(out.url) => out.err = ErrNone)

\* C23: for every offset >= 0 and every limit in 1..500 the list action
\* asks the server for the limit records that follow the first offset
\* records: exactly offset records are skipped.
C23_ListSkipsOffset ==
  (/\ out.op = "list" /\ out.args = <<>>
   /\ out.offset >= 0 /\ out.limit >= 1 /\ out.limit <= MaxPerPage) =>
    /\ out.err = ErrNone
    /\ Window(out.request[1]) =
         {i \in 1..TotalRecords : i > out.offset /\ i <= out.offset + out.limit}

\* C24: the check of the backup commands accepts the active context
\* exactly when the context is valid at the clock reading, which is also
\* exactly when the check of the collections commands accepts it, the
\* reading that equals auth_expires included.
C24_BackupCheckAgrees ==
  (out.op = "backup" /\ out.err # ErrNoActiveContext) =>
    /\ (out.err = ErrNone) = ClaimedValid(out.ctx, out.now)
    /\ (out.err = ErrNone) = (CollectionsAccepts(authSource, out.ctx, out.now) = ErrNone)

\* No command is running.
Quiescent == \A p \in Procs : procs[p].pc = "idle"

\* C25: whenever no command is running, after any runs of context create,
\* select and delete, two at a time and interleaved read by read and write
\* by write, the stored active_context is empty or is the name of a stored
\* context.
C25_ActiveContextStored ==
  Quiescent => (ActiveContextOf(fs) = <<>> \/ Persisted(fs, ActiveContextOf(fs)))

\* C26: from the step of a context delete that removes context a until a
\* context create writes it again, a is not in the list of contexts,
\* whatever the commands that loaded it earlier save.
C26_DeletedStaysDeleted ==
  last.op = "deleted" => ContextA \notin ListContexts(fs).val

\* C27: for every category and every command c in its list, as built in
\* and after any calls of AddCommand, ResolveCommand(category, c)
\* succeeds and returns c.
C27_FullNameResolves ==
  \A category \in DOMAIN commands :
    \A n \in 1..Len(commands[category]) :
      ResolveCommand(commands, category, commands[category][n])
        = Result(ErrNone, commands[category][n], <<>>)

\* C28: in every state of the files and for every non-empty name n, a
\* manager finds n to exist exactly when ListContexts returns n and exactly
\* when LoadContext(n) succeeds, and DeleteContext(n) fails with NotFound
\* exactly when n does not exist.
C28_ViewsAgree ==
  \A n \in Names \ {<<>>} :
    LET f == NewManager(fs)
    IN /\ ContextExists(f, n) <=> n \in ListContexts(f).val
       /\ ContextExists(f, n) <=> LoadContext(f, n).err = ErrNone
       /\ DeleteContext(f, n).err = ErrNotFound <=> ~ContextExists(f, n)

\* C29: a run of `pb auth` that ends before its save (no active context,
\* an invalid auth collection or email, no input, a failed health check,
\* credentials the server rejects) leaves every stored context as it was.
C29_FailedAuthKeepsContext ==
  [][\A in \in AuthRuns :
       (AuthCommand(in) /\ AuthRun(fs, authSource, now, in).step # "save") =>
         fs'.ctx = fs.ctx]_vars

\* The server has rejected the credentials while the active context held
\* a token.
C29_Witness ==
  /\ out.op = "auth"
  /\ out.step = "authenticate"
  /\ last = Done("auth", FALSE, ErrAuthFailed)
  /\ GetActiveContext(fs).err = ErrNone
  /\ GetActiveContext(fs).val.PocketBase.AuthToken # ""

\* The files with the non-empty token of every stored context replaced.
Retoken(f, tok) ==
  [f EXCEPT !.ctx = [d \in DOMAIN f.ctx |->
                       IF f.ctx[d].pocketbase.auth_token # ""
                       THEN [f.ctx[d] EXCEPT !.pocketbase.auth_token = tok]
                       ELSE f.ctx[d]]]

\* The tokens stored with the contexts.
StoredTokens(f) == {f.ctx[d].pocketbase.auth_token : d \in DOMAIN f.ctx} \ {""}

\* C30: what `pb context show` prints in json, yaml and table format does
\* not depend on the value of a stored non-empty token: had any other
\* non-empty token been stored in its place the output would be the same,
\* no stored token is among the values printed, and showing a context
\* leaves every stored context as it was.
C30_ShowHidesToken ==
  [][\A args \in ShowArgs, format \in ShowFormats :
       ContextShow(args, format) =>
         /\ fs'.ctx = fs.ctx
         /\ \A tok \in TokenInputs \cup {OpaqueToken} :
              ShowRun(Retoken(fs, tok), authSource, now, args, format).output = out'.output
         /\ (out'.err = ErrNone /\ format \in {"json"}) =>
              out'.output[2].PocketBase.AuthToken \notin StoredTokens(fs)
         /\ (out'.err = ErrNone /\ format \in {"yaml"}) =>
              out'.output[2].pocketbase.auth_token \notin StoredTokens(fs)]_vars

\* A context with a token has been shown in json.
C30_Witness ==
  /\ out.op = "show"
  /\ out.err = ErrNone
  /\ out.format = "json"
  /\ StoredTokens(fs) # {}
  /\ out.output[2].PocketBase.AuthToken = HiddenToken
====
